---- MODULE Spec2Model ----
(***************************************************************************)
(* Deployment orchestration subsystem of repo-deployer-v2:                 *)
(*   - PortManager        (backend/services/port_manager.py)               *)
(*   - CloneQueueService  (backend/services/clone_queue.py)                *)
(*   - DeploymentService  (backend/services/deployment_service.py)         *)
(*   - StackDetector      (backend/services/stack_detection.py)            *)
(*                                                                         *)
(* Threading, as the code is deployed (backend/main.py, routes/*.py):      *)
(*   - the clone-queue endpoints are `async def`: they all run on the one  *)
(*     event-loop thread, so they never overlap each other, but they do    *)
(*     overlap the dispatcher thread (_worker_loop) and the pool workers   *)
(*     (_process_job), and no lock guards a job's status;                  *)
(*   - the deployment endpoints are plain `def`: each request runs on its  *)
(*     own thread-pool thread, so PortManager methods overlap, and         *)
(*     PortManager has no lock at all.                                     *)
(***************************************************************************)
EXTENDS Integers, Sequences, FiniteSets, TLC

(***************************************************************************)
(* Bounds of the model                                                     *)
(***************************************************************************)
\* number of ports of the range that the model keeps (the real range has 20001)
NumPorts == 2
\* clone jobs enqueued in one run
MaxJobs == 3
\* the cap self.max_concurrent (an attribute of the service, 3 unless reassigned)
max_concurrent == 2
\* deployment records created in one run
MaxDeployments == 2
\* files in the directory that StackDetector looks at
MaxFiles == 3

(***************************************************************************)
(* State                                                                   *)
(***************************************************************************)
\* PortManager
VARIABLES
    allocated_ports,   \* PortManager.allocated_ports: set of ports
    port_to_repo,      \* PortManager.port_to_repo: dict, kept in insertion order
    pm,                \* per request thread: the PortManager call it is inside
    held               \* history: (name, port) handed out by allocate_port and not released since

\* CloneQueueService
VARIABLES
    job,          \* every CloneJob object created so far, by id
    jobs,         \* keys of the dict self.jobs
    queue,        \* self.queue (FIFO of job ids)
    job_counter,  \* self.job_counter
    active_jobs,  \* self.active_jobs
    is_running,   \* self.is_running
    dq,           \* the dispatcher thread (_worker_loop): where it is, and its job
    wk,           \* per job: where the pool worker running _process_job is
    cl,           \* the event-loop thread: the endpoint it is inside, and its last result
    dispatched,   \* history: job ids in the order they were marked IN_PROGRESS
    cloned,       \* history: per job, the calls of _update_repository_cloned_status
    decs          \* history: per job, how often _process_job decremented active_jobs

\* DeploymentService and the deployments table
VARIABLES
    deployments,  \* rows of the deployments table, by id
    dep_counter,  \* the table's id sequence
    inflight,     \* ids with a deploy() between its first commit and its result
    ev            \* history: the last DeploymentService call and what it returned

\* StackDetector
VARIABLES
    dir,          \* the files at repo_path: a set of [name, kw, ok]
    detected      \* what the detect() call in progress returned to its caller

\* DeploymentExecutor and clone_repo
VARIABLES
    fs,           \* the paths that deploy() and clone_repo() have created and not removed
    call          \* the external operation in progress: where it is, and its result

portVars == <<allocated_ports, port_to_repo, pm, held>>
queueVars == <<job, jobs, queue, job_counter, active_jobs, is_running, dq, wk, cl,
               dispatched, cloned, decs>>
deployVars == <<deployments, dep_counter, inflight, ev>>
detectVars == <<dir, detected>>
execVars == <<fs, call>>
vars == <<portVars, queueVars, deployVars, detectVars, execVars>>

\* what a step of one component leaves alone
PortOnly == UNCHANGED <<queueVars, deployVars, detectVars, execVars>>
QueueOnly == UNCHANGED <<portVars, deployVars, detectVars, execVars>>
DeployOnly == UNCHANGED <<queueVars, detectVars, execVars>>
ExecOnly == UNCHANGED <<portVars, queueVars, deployVars, detectVars>>

(***************************************************************************)
(* PortManager                                                             *)
(***************************************************************************)
MIN_PORT == 20000
MAX_PORT == MIN_PORT + NumPorts - 1
\* Python's None where a port is expected
None == -1

Ports == MIN_PORT..MAX_PORT
\* ports a caller may pass to release_port / reserve_port: the range and one below
PortArgs == (MIN_PORT - 1)..MAX_PORT
RepoNames == {"a", "b"}
\* request threads calling the PortManager concurrently
Threads == {"t1", "t2"}

\* dict port_to_repo as a sequence of [port, name] in insertion order
DictKeys(d) == {d[i].port : i \in 1..Len(d)}
DictGet(d, port) ==
    IF port \in DictKeys(d)
    THEN (CHOOSE i \in 1..Len(d) : d[i].port = port) \* keys are unique
    ELSE 0
\* d[port] = name: an existing key keeps its position, a new key is appended
DictSet(d, port, name) ==
    IF port \in DictKeys(d)
    THEN [i \in 1..Len(d) |-> IF d[i].port = port THEN [port |-> port, name |-> name] ELSE d[i]]
    ELSE Append(d, [port |-> port, name |-> name])
\* d.pop(port, None)
DictPop(d, port) == SelectSeq(d, LAMBDA e : e.port # port)

\* get_repo_for_port: the owner, or "" for None
get_repo_for_port(d, port) ==
    IF port \in DictKeys(d) THEN d[DictGet(d, port)].name ELSE ""

\* get_port_for_repo, and the first loop of allocate_port: the first item of the
\* dict whose value is repo_name
get_port_for_repo(d, repo_name) ==
    IF \E i \in 1..Len(d) : d[i].name = repo_name
    THEN LET i == CHOOSE k \in 1..Len(d) :
                     /\ d[k].name = repo_name
                     /\ \A m \in 1..(k - 1) : d[m].name # repo_name
         IN d[i].port
    ELSE None

is_allocated(alloc, port) == port \in alloc

\* results: a port, True/False, or an exception
\* (found: the port came from the scan of port_to_repo, lines 34-36)
RetPort(p, found) == [port |-> p, ok |-> TRUE, raised |-> FALSE, found |-> found]
RetBool(b) == [port |-> None, ok |-> b, raised |-> FALSE, found |-> FALSE]
RetRaise == [port |-> None, ok |-> FALSE, raised |-> TRUE, found |-> FALSE]
NoRet == RetBool(FALSE)

\* a request thread inside a PortManager call. port: the call's port (the cursor
\* of allocate_port's second loop); i, n0: the position of the dict iterator of
\* lines 34-36 and the dict size it was created for; had, cnt0 (history): the
\* port the name owned and the number of allocated ports when the call was made
InCall(pc, op, name, port, i, n0, had, cnt0) ==
    [pc |-> pc, op |-> op, name |-> name, port |-> port, i |-> i, n0 |-> n0,
     had |-> had, cnt0 |-> cnt0, ret |-> NoRet]
\* the thread after the call returned ret
Idle(op, name, port, ret) ==
    [pc |-> "idle", op |-> op, name |-> name, port |-> port, i |-> 0, n0 |-> 0,
     had |-> None, cnt0 |-> 0, ret |-> ret]

\* ---- allocate_port(repo_name), one step per shared-memory access ----
\* line 34: the call, and the iterator over port_to_repo.items()
AllocCall(t, repo_name) ==
    /\ pm[t].pc = "idle"
    /\ pm' = [pm EXCEPT ![t] = InCall("scan", "allocate", repo_name, None, 1,
                                      Len(port_to_repo),
                                      get_port_for_repo(port_to_repo, repo_name),
                                      Cardinality(allocated_ports))]
    /\ UNCHANGED <<allocated_ports, port_to_repo, held>>
    /\ PortOnly

\* lines 34-36 with every item compared (a plausible slip: the loop tests the key)
ScanItem_NoMatch(d, i, repo_name) == FALSE

\* line 35: does item i of the dict belong to repo_name
ScanItem(d, i, repo_name) == d[i].name = repo_name

\* lines 34-36: one step of the iterator. A dict whose size changed since the
\* iterator was created raises RuntimeError; the first item owned by repo_name
\* is returned; at the end of the dict the search for a free port starts
AllocScan(t) ==
    /\ pm[t].pc = "scan"
    /\ IF Len(port_to_repo) # pm[t].n0
       THEN /\ pm' = [pm EXCEPT ![t] = Idle("allocate", pm[t].name, None, RetRaise)]
            /\ held' = held
       ELSE IF pm[t].i > Len(port_to_repo)
            THEN /\ pm' = [pm EXCEPT ![t].pc = "find", ![t].port = MIN_PORT, ![t].i = 0,
                                     ![t].n0 = 0]
                 /\ held' = held
            ELSE IF ScanItem(port_to_repo, pm[t].i, pm[t].name)
                 THEN LET p == port_to_repo[pm[t].i].port IN
                      /\ pm' = [pm EXCEPT ![t] = Idle("allocate", pm[t].name, p,
                                                        RetPort(p, TRUE))]
                      /\ held' = held \cup {<<pm[t].name, p>>}
                 ELSE /\ pm' = [pm EXCEPT ![t].i = pm[t].i + 1]
                      /\ held' = held
    /\ UNCHANGED <<allocated_ports, port_to_repo>>
    /\ PortOnly

\* allocate_port() that, with the range used up, starts over at MIN_PORT and
\* hands out that port again instead of raising
AllocFind_WrapsAround(t) ==
    /\ pm[t].pc = "find"
    /\ IF pm[t].port > MAX_PORT
       THEN pm' = [pm EXCEPT ![t].pc = "add", ![t].port = MIN_PORT]
       ELSE IF ~is_allocated(allocated_ports, pm[t].port)
            THEN pm' = [pm EXCEPT ![t].pc = "add"]
            ELSE pm' = [pm EXCEPT ![t].port = pm[t].port + 1]
    /\ UNCHANGED <<allocated_ports, port_to_repo, held>>
    /\ PortOnly

\* lines 39-40 and 46: test `port not in allocated_ports` for the loop's current port
AllocFind(t) ==
    /\ pm[t].pc = "find"
    /\ IF pm[t].port > MAX_PORT
       THEN pm' = [pm EXCEPT ![t] = Idle("allocate", pm[t].name, None, RetRaise)]
       ELSE IF ~is_allocated(allocated_ports, pm[t].port)
            THEN pm' = [pm EXCEPT ![t].pc = "add"]
            ELSE pm' = [pm EXCEPT ![t].port = pm[t].port + 1]
    /\ UNCHANGED <<allocated_ports, port_to_repo, held>>
    /\ PortOnly

\* line 41
AllocAdd(t) ==
    /\ pm[t].pc = "add"
    /\ allocated_ports' = allocated_ports \cup {pm[t].port}
    /\ pm' = [pm EXCEPT ![t].pc = "map"]
    /\ UNCHANGED <<port_to_repo, held>>
    /\ PortOnly

\* lines 42-44
AllocMap(t) ==
    /\ pm[t].pc = "map"
    /\ port_to_repo' = DictSet(port_to_repo, pm[t].port, pm[t].name)
    /\ pm' = [pm EXCEPT ![t] = Idle("allocate", pm[t].name, pm[t].port, RetPort(pm[t].port, FALSE))]
    /\ held' = held \cup {<<pm[t].name, pm[t].port>>}
    /\ UNCHANGED allocated_ports
    /\ PortOnly

\* ---- release_port(port) ----
\* line 57 (and 62)
ReleaseCheck(t, port) ==
    /\ pm[t].pc = "idle"
    /\ IF is_allocated(allocated_ports, port)
       THEN pm' = [pm EXCEPT ![t] = InCall("discard", "release", "", port, 0, 0, None, 0)]
       ELSE pm' = [pm EXCEPT ![t] = Idle("release", "", port, RetBool(FALSE))]
    /\ UNCHANGED <<allocated_ports, port_to_repo, held>>
    /\ PortOnly

\* line 58: from here on the port is free again
ReleaseDiscard(t) ==
    /\ pm[t].pc = "discard"
    /\ allocated_ports' = allocated_ports \ {pm[t].port}
    /\ held' = {g \in held : g[2] # pm[t].port}
    /\ pm' = [pm EXCEPT ![t].pc = "pop"]
    /\ UNCHANGED port_to_repo
    /\ PortOnly

\* release_port() that forgets line 59: the owner stays in port_to_repo
ReleasePop_KeepsOwner(t) ==
    /\ pm[t].pc = "pop"
    /\ port_to_repo' = port_to_repo
    /\ pm' = [pm EXCEPT ![t] = Idle("release", "", pm[t].port, RetBool(TRUE))]
    /\ UNCHANGED <<allocated_ports, held>>
    /\ PortOnly

\* lines 59-61
ReleasePop(t) ==
    /\ pm[t].pc = "pop"
    /\ port_to_repo' = DictPop(port_to_repo, pm[t].port)
    /\ pm' = [pm EXCEPT ![t] = Idle("release", "", pm[t].port, RetBool(TRUE))]
    /\ UNCHANGED <<allocated_ports, held>>
    /\ PortOnly

\* ---- reserve_port(port, repo_name) ----
\* line 126 (and 131)
ReserveCheck(t, port, repo_name) ==
    /\ pm[t].pc = "idle"
    /\ IF MIN_PORT <= port /\ port <= MAX_PORT /\ ~is_allocated(allocated_ports, port)
       THEN pm' = [pm EXCEPT ![t] = InCall("radd", "reserve", repo_name, port, 0, 0, None, 0)]
       ELSE pm' = [pm EXCEPT ![t] = Idle("reserve", repo_name, port, RetBool(FALSE))]
    /\ UNCHANGED <<allocated_ports, port_to_repo, held>>
    /\ PortOnly

\* line 127
ReserveAdd(t) ==
    /\ pm[t].pc = "radd"
    /\ allocated_ports' = allocated_ports \cup {pm[t].port}
    /\ pm' = [pm EXCEPT ![t].pc = "rmap"]
    /\ UNCHANGED <<port_to_repo, held>>
    /\ PortOnly

\* lines 128-130
ReserveMap(t) ==
    /\ pm[t].pc = "rmap"
    /\ port_to_repo' = DictSet(port_to_repo, pm[t].port, pm[t].name)
    /\ pm' = [pm EXCEPT ![t] = Idle("reserve", pm[t].name, pm[t].port, RetBool(TRUE))]
    /\ UNCHANGED <<allocated_ports, held>>
    /\ PortOnly

\* PortManager.__init__, and no thread inside a call
InitPort ==
    /\ allocated_ports = {}
    /\ port_to_repo = <<>>
    /\ pm = [t \in Threads |-> Idle("none", "", None, RetBool(FALSE))]
    /\ held = {}

\* the calls the program makes: allocate_port (create_deployment) and
\* release_port (delete_deployment), from concurrent request threads
NextPort ==
    \E t \in Threads :
        \/ \E n \in RepoNames : AllocCall(t, n)
        \/ AllocScan(t)
        \/ AllocFind(t)
        \/ AllocAdd(t)
        \/ AllocMap(t)
        \/ \E p \in Ports : ReleaseCheck(t, p)
        \/ ReleaseDiscard(t)
        \/ ReleasePop(t)

\* the same calls one after the other: a call starts only when no other is running
Alone(t) == \A u \in Threads \ {t} : pm[u].pc = "idle"
NextPortSeq ==
    \E t \in Threads :
        \/ Alone(t) /\ \E n \in RepoNames : AllocCall(t, n)
        \/ Alone(t) /\ AllocScan(t)
        \/ Alone(t) /\ AllocFind(t)
        \/ Alone(t) /\ AllocAdd(t)
        \/ Alone(t) /\ AllocMap(t)
        \/ Alone(t) /\ \E p \in Ports : ReleaseCheck(t, p)
        \/ Alone(t) /\ ReleaseDiscard(t)
        \/ Alone(t) /\ ReleasePop(t)

\* the whole public interface, one call after the other; release_port and
\* reserve_port are also called for a port outside the range
NextPortApiSeq ==
    \E t \in Threads :
        \/ Alone(t) /\ \E n \in RepoNames : AllocCall(t, n)
        \/ Alone(t) /\ AllocScan(t)
        \/ Alone(t) /\ AllocFind(t)
        \/ Alone(t) /\ AllocAdd(t)
        \/ Alone(t) /\ AllocMap(t)
        \/ Alone(t) /\ \E p \in PortArgs : ReleaseCheck(t, p)
        \/ Alone(t) /\ ReleaseDiscard(t)
        \/ Alone(t) /\ ReleasePop(t)
        \/ Alone(t) /\ \E p \in PortArgs, n \in RepoNames : ReserveCheck(t, p, n)
        \/ Alone(t) /\ ReserveAdd(t)
        \/ Alone(t) /\ ReserveMap(t)

\* the whole public interface, reserve_port included
NextPortApi ==
    \/ NextPort
    \/ \E t \in Threads :
        \/ \E p \in PortArgs, n \in RepoNames : ReserveCheck(t, p, n)
        \/ ReserveAdd(t)
        \/ ReserveMap(t)

(***************************************************************************)
(* CloneQueueService                                                       *)
(***************************************************************************)
PENDING == "pending"
IN_PROGRESS == "in_progress"
COMPLETED == "completed"
FAILED == "failed"
CANCELLED == "cancelled"
CloneStatus == {PENDING, IN_PROGRESS, COMPLETED, FAILED, CANCELLED}

\* the repository a clone is requested for: main.py passes repo.id and repo.path
Repos == {[id |-> 7, path |-> "/repos/demo"]}
JobIds == 1..MaxJobs

\* CloneJob (lines 33-55) as add_job builds it: the fields the service's control
\* flow and its callback read, and error_message, of which the model keeps
\* whether a text was recorded ("error") or not (""), not the text itself;
\* progress and the timestamps are only written
NewJob(repo) ==
    [repository_id |-> repo.id, target_path |-> repo.path, status |-> PENDING,
     error_message |-> ""]

\* the application serves requests between its startup (start()) and shutdown (stop())
Serving == is_running /\ dq.pc # "none"

\* the event-loop thread between two requests
ClientIdle == [pc |-> "idle", job |-> 0, rm |-> {}]

\* self.queue.put(job.id) where the FIFO Queue is turned into a stack
QueuePut_Front(q, id) == <<id>> \o q

\* line 111: self.queue.put(job.id)
QueuePut(q, id) == Append(q, id)

\* line 151 letting a dispatched job through as well
Cancellable_AlsoRunning(exists, status) == exists /\ status \in {PENDING, IN_PROGRESS}

\* line 151: `job and job.status == CloneStatus.PENDING`
Cancellable(exists, status) == exists /\ status = PENDING

\* line 230 with `>` for `>=`
CapReached_OffByOne(n) == n > max_concurrent

\* line 230: `self.active_jobs >= self.max_concurrent`
CapReached(n) == n >= max_concurrent

\* a worker that clears the counter when it ends
Decrement_Reset(n) == 0

\* line 218: `self.active_jobs -= 1`
Decrement(n) == n - 1

\* line 200: the callback of line 204 runs only `if success`
CallbackAfter(outcome) == outcome = "ok"

\* CloneQueueService.__init__
InitQueue ==
    /\ job = <<>>
    /\ jobs = {}
    /\ queue = <<>>
    /\ job_counter = 0
    /\ active_jobs = 0
    /\ is_running = FALSE
    /\ dq = [pc |-> "none", job |-> 0]
    /\ wk = <<>>
    /\ cl = ClientIdle
    /\ dispatched = <<>>
    /\ cloned = <<>>
    /\ decs = <<>>

\* ---- endpoints, on the event-loop thread ----
\* start(): lines 80-90
Start ==
    /\ cl.pc = "idle"
    /\ ~is_running
    /\ dq.pc = "none"
    /\ is_running' = TRUE
    /\ dq' = [pc |-> "top", job |-> 0]
    /\ UNCHANGED <<job, jobs, queue, job_counter, active_jobs, wk, cl, dispatched, cloned, decs>>
    /\ QueueOnly

\* stop(): lines 92-98; jobs already submitted to the executor still run
Stop ==
    /\ cl.pc = "idle"
    /\ is_running
    /\ is_running' = FALSE
    /\ UNCHANGED <<job, jobs, queue, job_counter, active_jobs, dq, wk, cl, dispatched, cloned, decs>>
    /\ QueueOnly

\* add_job() numbering a job by the size of the table instead of the counter
add_job_IdFromTableSize(repo) ==
    /\ cl.pc = "idle"
    /\ Serving
    /\ job_counter < MaxJobs
    /\ job_counter' = Cardinality(jobs) + 1
    /\ job' = Append(job, NewJob(repo))
    /\ jobs' = jobs \cup {job_counter'}
    /\ queue' = QueuePut(queue, job_counter')
    /\ wk' = Append(wk, "none")
    /\ cloned' = Append(cloned, <<>>)
    /\ decs' = Append(decs, 0)
    /\ cl' = ClientIdle
    /\ UNCHANGED <<active_jobs, is_running, dq, dispatched>>
    /\ QueueOnly

\* add_job(): lines 100-112
add_job(repo) ==
    /\ cl.pc = "idle"
    /\ Serving
    /\ job_counter < MaxJobs
    /\ job_counter' = job_counter + 1
    /\ job' = Append(job, NewJob(repo))
    /\ jobs' = jobs \cup {job_counter'}
    /\ queue' = QueuePut(queue, job_counter')
    /\ wk' = Append(wk, "none")
    /\ cloned' = Append(cloned, <<>>)
    /\ decs' = Append(decs, 0)
    /\ cl' = ClientIdle
    /\ UNCHANGED <<active_jobs, is_running, dq, dispatched>>
    /\ QueueOnly

\* add_jobs(): lines 114-125, add_job for each repository of the request, in
\* order, with no other endpoint in between (main.py line 1317 passes the
\* repositories that are not cloned yet)
add_jobs(r1, r2) ==
    /\ cl.pc = "idle"
    /\ Serving
    /\ job_counter + 2 <= MaxJobs
    /\ job_counter' = job_counter + 2
    /\ job' = Append(Append(job, NewJob(r1)), NewJob(r2))
    /\ jobs' = jobs \cup {job_counter + 1, job_counter + 2}
    /\ queue' = QueuePut(QueuePut(queue, job_counter + 1), job_counter + 2)
    /\ wk' = Append(Append(wk, "none"), "none")
    /\ cloned' = Append(Append(cloned, <<>>), <<>>)
    /\ decs' = Append(Append(decs, 0), 0)
    /\ cl' = ClientIdle
    /\ UNCHANGED <<active_jobs, is_running, dq, dispatched>>
    /\ QueueOnly

\* cancel_job(): lines 150-151 and 154, the read of the status
cancel_job_check(job_id) ==
    /\ cl.pc = "idle"
    /\ Serving
    /\ IF Cancellable(job_id \in jobs, IF job_id \in jobs THEN job[job_id].status ELSE "")
       THEN cl' = [pc |-> "cancel_set", job |-> job_id, rm |-> {}]
       ELSE cl' = ClientIdle
    /\ UNCHANGED <<job, jobs, queue, job_counter, active_jobs, is_running, dq, wk,
                   dispatched, cloned, decs>>
    /\ QueueOnly

\* cancel_job(): lines 152-153, the write of the status
cancel_job_set ==
    /\ cl.pc = "cancel_set"
    /\ job' = [job EXCEPT ![cl.job].status = CANCELLED]
    /\ cl' = ClientIdle
    /\ UNCHANGED <<jobs, queue, job_counter, active_jobs, is_running, dq, wk,
                   dispatched, cloned, decs>>
    /\ QueueOnly

\* line 160 taking a running job for a finished one
Terminal_AlsoRunning(status) == status \in {COMPLETED, FAILED, CANCELLED, IN_PROGRESS}

\* line 160: `job.status in [COMPLETED, FAILED, CANCELLED]`
Terminal(status) == status \in {COMPLETED, FAILED, CANCELLED}

\* clear_completed(): lines 158-161, the list of ids to remove.  The endpoints
\* share the event-loop thread, so no add_job or cancel_job runs before the
\* deletions; the dispatcher and the workers do
clear_completed_scan ==
    /\ cl.pc = "idle"
    /\ Serving
    /\ cl' = [pc |-> "clear_del", job |-> 0, rm |-> {j \in jobs : Terminal(job[j].status)}]
    /\ UNCHANGED <<job, jobs, queue, job_counter, active_jobs, is_running, dq, wk,
                   dispatched, cloned, decs>>
    /\ QueueOnly

\* clear_completed(): lines 162-163
clear_completed_del ==
    /\ cl.pc = "clear_del"
    /\ jobs' = jobs \ cl.rm
    /\ cl' = ClientIdle
    /\ UNCHANGED <<job, queue, job_counter, active_jobs, is_running, dq, wk,
                   dispatched, cloned, decs>>
    /\ QueueOnly

\* get_queue_status(): lines 135-146
CountStatus(st) == Cardinality({j \in jobs : job[j].status = st})
get_queue_status ==
    [total |-> Cardinality(jobs),
     pending |-> CountStatus(PENDING),
     in_progress |-> CountStatus(IN_PROGRESS),
     completed |-> CountStatus(COMPLETED),
     failed |-> CountStatus(FAILED),
     is_running |-> is_running,
     active_jobs |-> active_jobs]

\* ---- the dispatcher thread, _worker_loop ----
\* _active_lock is held by the dispatcher for the whole of its sleep (lines
\* 229-232); every other holder takes and drops it within one step
LockFree == dq.pc # "sleep"

\* lines 226-230: the loop test, and the test of the cap under _active_lock
DispatchTop ==
    /\ dq.pc = "top"
    /\ IF ~is_running
       THEN dq' = [dq EXCEPT !.pc = "exit"]
       ELSE IF CapReached(active_jobs)
            THEN dq' = [dq EXCEPT !.pc = "sleep"]
            ELSE dq' = [dq EXCEPT !.pc = "get"]
    /\ UNCHANGED <<job, jobs, queue, job_counter, active_jobs, is_running, wk, cl,
                   dispatched, cloned, decs>>
    /\ QueueOnly

\* lines 231-232: a full pool sleeps inside the `with self._active_lock` block;
\* `continue` leaves the block and releases the lock
DispatchSleep ==
    /\ dq.pc = "sleep"
    /\ dq' = [dq EXCEPT !.pc = "top"]
    /\ UNCHANGED <<job, jobs, queue, job_counter, active_jobs, is_running, wk, cl,
                   dispatched, cloned, decs>>
    /\ QueueOnly

\* lines 235-242: queue.get (an empty queue times out and retries), the lookup of
\* the job and the read of its status
DispatchGet ==
    /\ dq.pc = "get"
    /\ IF queue = <<>>
       THEN /\ dq' = [dq EXCEPT !.pc = "top"]
            /\ queue' = queue
       ELSE /\ queue' = Tail(queue)
            /\ IF Head(queue) \notin jobs \/ job[Head(queue)].status = CANCELLED
               THEN dq' = [pc |-> "top", job |-> 0]
               ELSE dq' = [pc |-> "inc", job |-> Head(queue)]
    /\ UNCHANGED <<job, jobs, job_counter, active_jobs, is_running, wk, cl,
                   dispatched, cloned, decs>>
    /\ QueueOnly

\* lines 245-246
DispatchInc ==
    /\ dq.pc = "inc"
    /\ active_jobs' = active_jobs + 1
    /\ dq' = [dq EXCEPT !.pc = "mark"]
    /\ UNCHANGED <<job, jobs, queue, job_counter, is_running, wk, cl, dispatched, cloned, decs>>
    /\ QueueOnly

\* lines 247-255: mark the job and submit it to the executor
DispatchMark ==
    /\ dq.pc = "mark"
    /\ job' = [job EXCEPT ![dq.job].status = IN_PROGRESS]
    /\ dispatched' = Append(dispatched, dq.job)
    /\ wk' = [wk EXCEPT ![dq.job] = "submitted"]
    /\ dq' = [pc |-> "top", job |-> 0]
    /\ UNCHANGED <<jobs, queue, job_counter, active_jobs, is_running, cl, cloned, decs>>
    /\ QueueOnly

\* ---- a pool worker, _process_job ----
\* lines 191-213 up to the status: clone_repo returned True ("ok"), returned
\* False ("fail"), or something raised ("raise"); both failures end FAILED
ProcessClone(j, outcome) ==
    /\ wk[j] = "submitted"
    /\ IF outcome = "ok"
       THEN job' = [job EXCEPT ![j].status = COMPLETED]
       ELSE job' = [job EXCEPT ![j].status = FAILED, ![j].error_message = "error"]
    /\ wk' = [wk EXCEPT ![j] = IF CallbackAfter(outcome) THEN "callback" ELSE "finally"]
    /\ UNCHANGED <<jobs, queue, job_counter, active_jobs, is_running, dq, cl,
                   dispatched, cloned, decs>>
    /\ QueueOnly

\* line 204, _update_repository_cloned_status (lines 165-185): it catches its own
\* failure (db_ok = FALSE)
ProcessCallback(j, db_ok) ==
    /\ wk[j] = "callback"
    /\ cloned' = [cloned EXCEPT ![j] =
                     Append(@, [repository_id |-> job[j].repository_id,
                                path |-> job[j].target_path])]
    /\ wk' = [wk EXCEPT ![j] = "finally"]
    /\ UNCHANGED <<job, jobs, queue, job_counter, active_jobs, is_running, dq, cl,
                   dispatched, decs>>
    /\ QueueOnly

\* lines 215-220
ProcessFinally(j) ==
    /\ wk[j] = "finally"
    /\ LockFree
    /\ active_jobs' = Decrement(active_jobs)
    /\ decs' = [decs EXCEPT ![j] = @ + 1]
    /\ wk' = [wk EXCEPT ![j] = "done"]
    /\ UNCHANGED <<job, jobs, queue, job_counter, is_running, dq, cl, dispatched, cloned>>
    /\ QueueOnly

NextQueue ==
    \/ Start
    \/ Stop
    \/ \E r \in Repos : add_job(r)
    \/ \E r1 \in Repos, r2 \in Repos : add_jobs(r1, r2)
    \/ \E id \in JobIds : cancel_job_check(id)
    \/ cancel_job_set
    \/ clear_completed_scan
    \/ clear_completed_del
    \/ DispatchTop
    \/ DispatchSleep
    \/ DispatchGet
    \/ DispatchInc
    \/ DispatchMark
    \/ \E j \in 1..job_counter, o \in {"ok", "fail", "raise"} : ProcessClone(j, o)
    \/ \E j \in 1..job_counter, b \in BOOLEAN : ProcessCallback(j, b)
    \/ \E j \in 1..job_counter : ProcessFinally(j)

(***************************************************************************)
(* DeploymentService (each method is one request; the PortManager calls    *)
(* inside it are taken whole here, their interleavings are SpecPort's)     *)
(***************************************************************************)
DEP_PENDING == "pending"
DEP_RUNNING == "running"
DEP_STOPPED == "stopped"
DEP_ERROR == "error"
DeploymentStatus == {DEP_PENDING, DEP_RUNNING, DEP_STOPPED, DEP_ERROR}

\* repository ids of the repositories table, and one id that is not in it
KnownRepoIds == {7}
RepoIdArgs == {7, 8}
\* results of StackDetector.detect().to_dict() handed to create_deployment
Detections == {[stack |-> "node", confidence_score |-> 95]}
DeploymentIds == 1..MaxDeployments

NoEvent == [op |-> "none", id |-> 0, ok |-> FALSE, port |-> None, stop |-> "none",
            before |-> "none"]
Event(op, id, ok, port, stop, before) ==
    [op |-> op, id |-> id, ok |-> ok, port |-> port, stop |-> stop, before |-> before]

\* the event of a deploy() that has returned; started: the executor built the
\* image and started the containers (result["success"], line 157)
DeployEvent(id, ok, port, before, started) ==
    [op |-> "deploy", id |-> id, ok |-> ok, port |-> port, stop |-> "none",
     before |-> before, started |-> started]

InitDeploy ==
    /\ deployments = <<>>
    /\ dep_counter = 0
    /\ inflight = {}
    /\ ev = NoEvent

\* allocate_port taken whole (lines 34-46): the port, and the tables after the call
AllocatePort(alloc, d, repo_name) ==
    LET have == get_port_for_repo(d, repo_name)
        free == {p \in Ports : ~is_allocated(alloc, p)}
    IN IF have # None
       THEN [port |-> have, raised |-> FALSE, alloc |-> alloc, dict |-> d]
       ELSE IF free # {}
            THEN LET p == CHOOSE q \in free : \A r \in free : q <= r
                 IN [port |-> p, raised |-> FALSE, alloc |-> alloc \cup {p},
                     dict |-> DictSet(d, p, repo_name)]
            ELSE [port |-> None, raised |-> TRUE, alloc |-> alloc, dict |-> d]

\* release_port taken whole (lines 57-62)
ReleasePort(alloc, d, port) ==
    IF is_allocated(alloc, port)
    THEN [ok |-> TRUE, alloc |-> alloc \ {port}, dict |-> DictPop(d, port)]
    ELSE [ok |-> FALSE, alloc |-> alloc, dict |-> d]

Exists(id) == id \in DOMAIN deployments
\* the table with row id removed
WithoutRow(id) == [k \in DOMAIN deployments \ {id} |-> deployments[k]]
\* the table with one more row
WithRow(id, row) == [k \in DOMAIN deployments \cup {id} |-> IF k = id THEN row ELSE deployments[k]]

\* the INSERT's commit with no UNIQUE index on assigned_port
InsertAccepted_NoUnique(repository_id, port) == repository_id \in KnownRepoIds

\* the INSERT's commit: assigned_port is UNIQUE and repository_id a foreign key
\* (models.py, Deployment)
InsertAccepted(repository_id, port) ==
    /\ repository_id \in KnownRepoIds
    /\ \A k \in DOMAIN deployments : deployments[k].assigned_port # port

\* POST /create (routes/deployment.py) and create_deployment (lines 79-120);
\* path_ok: the repository path exists (detect_and_validate_repo, lines 43-46)
create_deployment(repository_id, repo_name, path_ok, detection) ==
    /\ dep_counter < MaxDeployments
    /\ IF ~path_ok
       THEN /\ ev' = Event("create", 0, FALSE, None, "none", "none")
            /\ UNCHANGED <<allocated_ports, port_to_repo, deployments, dep_counter>>
       ELSE LET a == AllocatePort(allocated_ports, port_to_repo, repo_name) IN
            /\ allocated_ports' = a.alloc
            /\ port_to_repo' = a.dict
            /\ IF ~a.raised /\ InsertAccepted(repository_id, a.port)
               THEN /\ dep_counter' = dep_counter + 1
                    /\ deployments' = WithRow(dep_counter',
                          [repository_id |-> repository_id, repo_name |-> repo_name,
                           stack |-> detection.stack,
                           confidence_score |-> detection.confidence_score,
                           assigned_port |-> a.port,
                           dockerfile_content |-> <<"Dockerfile", detection.stack>>,
                           compose_content |-> <<"compose", detection.stack, repo_name, a.port>>,
                           status |-> DEP_PENDING, container_id |-> "",
                           error_message |-> ""])
                    /\ ev' = Event("create", dep_counter', TRUE, a.port, "none", "none")
               ELSE /\ UNCHANGED <<deployments, dep_counter>>
                    /\ ev' = Event("create", 0, FALSE, a.port, "none", "none")
    /\ UNCHANGED <<inflight, pm, held>>
    /\ DeployOnly

\* deploy(), lines 139-152: the row is marked RUNNING and committed, then the
\* executor runs for up to its timeout
deploy_begin(id) ==
    /\ id \notin inflight
    /\ IF Exists(id)
       THEN /\ deployments' = [deployments EXCEPT ![id].status = DEP_RUNNING]
            /\ inflight' = inflight \cup {id}
            /\ ev' = Event("deploy_begin", id, TRUE, deployments[id].assigned_port, "none",
                           deployments[id].status)
       ELSE /\ UNCHANGED <<deployments, inflight>>
            /\ ev' = DeployEvent(id, FALSE, None, "none", FALSE)
    /\ UNCHANGED <<allocated_ports, port_to_repo, dep_counter, pm, held>>
    /\ DeployOnly

\* deploy() cleaning up after a failure: the generated files are dropped from the row
deploy_end_DropsArtifacts(id, success) ==
    /\ id \in inflight
    /\ inflight' = inflight \ {id}
    /\ IF Exists(id)
       THEN /\ deployments' =
                 IF success
                 THEN [deployments EXCEPT ![id].status = DEP_RUNNING,
                                          ![id].container_id = "container",
                                          ![id].error_message = ""]
                 ELSE [deployments EXCEPT ![id].status = DEP_ERROR,
                                          ![id].error_message = "deploy failed",
                                          ![id].dockerfile_content = <<>>,
                                          ![id].compose_content = <<>>]
            /\ ev' = DeployEvent(id, success, deployments[id].assigned_port,
                                 deployments[id].status, success)
       ELSE /\ UNCHANGED deployments
            /\ ev' = DeployEvent(id, FALSE, None, "none", success)
    /\ UNCHANGED <<allocated_ports, port_to_repo, dep_counter, pm, held>>
    /\ DeployOnly

\* deploy(), lines 157-194: the executor's result is written; a row deleted in the
\* meantime makes the commit fail and the handler finds nothing to update, so
\* deploy() returns False whatever the executor did
deploy_end(id, success) ==
    /\ id \in inflight
    /\ inflight' = inflight \ {id}
    /\ IF Exists(id)
       THEN /\ deployments' =
                 IF success
                 THEN [deployments EXCEPT ![id].status = DEP_RUNNING,
                                          ![id].container_id = "container",
                                          ![id].error_message = ""]
                 ELSE [deployments EXCEPT ![id].status = DEP_ERROR,
                                          ![id].error_message = "deploy failed"]
            /\ ev' = DeployEvent(id, success, deployments[id].assigned_port,
                                 deployments[id].status, success)
       ELSE /\ UNCHANGED deployments
            /\ ev' = DeployEvent(id, FALSE, None, "none", success)
    /\ UNCHANGED <<allocated_ports, port_to_repo, dep_counter, pm, held>>
    /\ DeployOnly

\* the rows after stop_deployment (lines 206-232) when the row exists
StopRows(id, success) ==
    IF success THEN [deployments EXCEPT ![id].status = DEP_STOPPED] ELSE deployments

\* stop_deployment() that gives the port back when the stop command failed
stop_deployment_ReleasesOnFailure(id, success) ==
    /\ IF Exists(id)
       THEN LET r == ReleasePort(allocated_ports, port_to_repo, deployments[id].assigned_port)
            IN /\ deployments' = StopRows(id, success)
               /\ allocated_ports' = IF success THEN allocated_ports ELSE r.alloc
               /\ port_to_repo' = IF success THEN port_to_repo ELSE r.dict
               /\ ev' = Event("stop", id, success, deployments[id].assigned_port,
                              IF success THEN "ok" ELSE "failed", deployments[id].status)
       ELSE /\ UNCHANGED <<deployments, allocated_ports, port_to_repo>>
            /\ ev' = Event("stop", id, FALSE, None, "none", "none")
    /\ UNCHANGED <<dep_counter, inflight, pm, held>>
    /\ DeployOnly

\* stop_deployment(), lines 206-232; success: `docker-compose down` exited 0 in time
stop_deployment(id, success) ==
    /\ IF Exists(id)
       THEN /\ deployments' = StopRows(id, success)
            /\ ev' = Event("stop", id, success, deployments[id].assigned_port,
                           IF success THEN "ok" ELSE "failed", deployments[id].status)
       ELSE /\ UNCHANGED deployments
            /\ ev' = Event("stop", id, FALSE, None, "none", "none")
    /\ UNCHANGED <<allocated_ports, port_to_repo, dep_counter, inflight, pm, held>>
    /\ DeployOnly

\* restart_deployment(), lines 244-269
restart_deployment(id, success) ==
    /\ IF Exists(id)
       THEN /\ deployments' =
                 IF success THEN [deployments EXCEPT ![id].status = DEP_RUNNING]
                 ELSE deployments
            /\ ev' = Event("restart", id, success, deployments[id].assigned_port, "none",
                           deployments[id].status)
       ELSE /\ UNCHANGED deployments
            /\ ev' = Event("restart", id, FALSE, None, "none", "none")
    /\ UNCHANGED <<allocated_ports, port_to_repo, dep_counter, inflight, pm, held>>
    /\ DeployOnly

\* delete_deployment() giving up, with nothing released or removed, when the stop
\* it calls fails
delete_deployment_AbortOnStopFailure(id, stop_success) ==
    /\ IF Exists(id)
       THEN LET r == ReleasePort(allocated_ports, port_to_repo, deployments[id].assigned_port)
                stopped == deployments[id].status = DEP_RUNNING
            IN IF stopped /\ ~stop_success
               THEN /\ UNCHANGED <<allocated_ports, port_to_repo, deployments>>
                    /\ ev' = Event("delete", id, FALSE, deployments[id].assigned_port,
                                   "failed", deployments[id].status)
               ELSE /\ allocated_ports' = r.alloc
                    /\ port_to_repo' = r.dict
                    /\ deployments' = WithoutRow(id)
                    /\ ev' = Event("delete", id, TRUE, deployments[id].assigned_port,
                                   IF stopped THEN "ok" ELSE "none", deployments[id].status)
       ELSE /\ UNCHANGED <<allocated_ports, port_to_repo, deployments>>
            /\ ev' = Event("delete", id, FALSE, None, "none", "none")
    /\ UNCHANGED <<dep_counter, inflight, pm, held>>
    /\ DeployOnly

\* delete_deployment() calling the stop whatever the row's status is
delete_deployment_AlwaysStops(id, stop_success) ==
    /\ IF Exists(id)
       THEN LET r == ReleasePort(allocated_ports, port_to_repo, deployments[id].assigned_port)
            IN /\ allocated_ports' = r.alloc
               /\ port_to_repo' = r.dict
               /\ deployments' = WithoutRow(id)
               /\ ev' = Event("delete", id, TRUE, deployments[id].assigned_port,
                              IF stop_success THEN "ok" ELSE "failed",
                              deployments[id].status)
       ELSE /\ UNCHANGED <<allocated_ports, port_to_repo, deployments>>
            /\ ev' = Event("delete", id, FALSE, None, "none", "none")
    /\ UNCHANGED <<dep_counter, inflight, pm, held>>
    /\ DeployOnly

\* delete_deployment(), lines 281-306; stop_success: the result of the stop it
\* calls when the row says RUNNING
delete_deployment(id, stop_success) ==
    /\ IF Exists(id)
       THEN LET r == ReleasePort(allocated_ports, port_to_repo, deployments[id].assigned_port)
                stopped == deployments[id].status = DEP_RUNNING
            IN /\ allocated_ports' = r.alloc
               /\ port_to_repo' = r.dict
               /\ deployments' = WithoutRow(id)
               /\ ev' = Event("delete", id, TRUE, deployments[id].assigned_port,
                              IF ~stopped THEN "none"
                              ELSE IF stop_success THEN "ok" ELSE "failed",
                              deployments[id].status)
       ELSE /\ UNCHANGED <<allocated_ports, port_to_repo, deployments>>
            /\ ev' = Event("delete", id, FALSE, None, "none", "none")
    /\ UNCHANGED <<dep_counter, inflight, pm, held>>
    /\ DeployOnly

\* get_deployment(), lines 318-345: the row, or nothing
get_deployment(id) == IF Exists(id) THEN {deployments[id]} ELSE {}

NextDeploy ==
    \/ \E rid \in RepoIdArgs, n \in RepoNames, ok \in BOOLEAN, d \in Detections :
           create_deployment(rid, n, ok, d)
    \/ \E id \in DeploymentIds : deploy_begin(id)
    \/ \E id \in DeploymentIds, ok \in BOOLEAN : deploy_end(id, ok)
    \/ \E id \in DeploymentIds, ok \in BOOLEAN : stop_deployment(id, ok)
    \/ \E id \in DeploymentIds, ok \in BOOLEAN : restart_deployment(id, ok)
    \/ \E id \in DeploymentIds, ok \in BOOLEAN : delete_deployment(id, ok)

\* get_port_manager(), lines 143-152, at the first request of a new server
\* process: the module's _port_manager is None again, so a PortManager with
\* nothing allocated is constructed; the rows of the deployments table are in
\* the database and are what they were
get_port_manager ==
    /\ inflight = {}
    /\ allocated_ports' = {}
    /\ port_to_repo' = <<>>
    /\ ev' = Event("process_start", 0, TRUE, None, "none", "none")
    /\ UNCHANGED <<deployments, dep_counter, inflight, pm, held>>
    /\ DeployOnly

\* the deployment pipeline over the lifetimes of several server processes
NextDeployRestart ==
    \/ \E rid \in RepoIdArgs, n \in RepoNames, ok \in BOOLEAN, d \in Detections :
           create_deployment(rid, n, ok, d)
    \/ \E id \in DeploymentIds : deploy_begin(id)
    \/ \E id \in DeploymentIds, ok \in BOOLEAN : deploy_end(id, ok)
    \/ \E id \in DeploymentIds, ok \in BOOLEAN : stop_deployment(id, ok)
    \/ \E id \in DeploymentIds, ok \in BOOLEAN : restart_deployment(id, ok)
    \/ \E id \in DeploymentIds, ok \in BOOLEAN : delete_deployment(id, ok)
    \/ get_port_manager

(***************************************************************************)
(* StackDetector (backend/services/stack_detection.py)                     *)
(*                                                                         *)
(* A file is [name, kw, ok]: kw is the set of words its text holds (for    *)
(* package.json: the keys of dependencies and devDependencies), ok is      *)
(* FALSE when reading or parsing it raises (the name is a directory, the   *)
(* JSON is malformed).  In the files of the second part of the catalogue   *)
(* stat is FALSE: Path.exists() raises for them (a symbolic link whose     *)
(* target gives ENAMETOOLONG or EACCES, an EIO of the disk; Path.exists    *)
(* only swallows ENOENT, ENOTDIR, EBADF and ELOOP).  The directory is given to *)
(* the detector by the clone that precedes it; it changes between          *)
(* detections, never during one.                                           *)
(***************************************************************************)
File(name, kw) == [name |-> name, kw |-> kw, ok |-> TRUE, stat |-> TRUE]
Broken(name) == [name |-> name, kw |-> {}, ok |-> FALSE, stat |-> TRUE]
Unstattable(name) == [name |-> name, kw |-> {}, ok |-> FALSE, stat |-> FALSE]

\* the files that the model puts into a directory
Catalogue ==
    {File("Dockerfile", k) : k \in {{}, {"node"}, {"python"}, {"nginx"}}}
    \cup {File("package.json", k) : k \in {{}, {"express"}, {"gatsby"}, {"gatsby", "next"}}}
    \cup {Broken("package.json"), Broken("composer.json")}
    \cup {Unstattable("composer.json"), Unstattable("index.html")}
    \cup {File("requirements.txt", k) : k \in {{}, {"django"}, {"flask"}}}
    \cup {File("setup.py", k) : k \in {{}, {"flask"}}}
    \cup {File("composer.json", k) : k \in {{}, {"symfony"}}}
    \cup {File("go.mod", k) : k \in {{}, {"gin"}}}
    \cup {File("Gemfile", k) : k \in {{}, {"sinatra"}}}
    \cup {File("pom.xml", k) : k \in {{}, {"spring-boot"}}}
    \cup {File("app.csproj", k) : k \in {{}, {"aspnetcore"}}}
    \cup {File("Cargo.toml", k) : k \in {{}, {"axum"}}}
    \cup {File("index.html", {}), File("style.css", {}), File("src/App.tsx", {})}

FileNames == {f.name : f \in Catalogue}

\* (self.repo_path / name).exists()
exists(d, name) == \E f \in d : f.name = name

\* the file of that name
file(d, name) == CHOOSE f \in d : f.name = name

\* the words that a text holding word k also holds as substrings
Substrings(k) ==
    CASE k = "spring-boot" -> {"spring-boot", "spring"}
      [] k = "aspnetcore" -> {"aspnetcore", "aspnet"}
      [] OTHER -> {k}

\* `word in content`, for the text of a file
Has(f, word) == \E k \in f.kw : word \in Substrings(k)

\* self.repo_path.glob(pattern): the names of the directory that match
glob(d, pattern) ==
    LET Matching ==
          CASE pattern = "*.csproj" -> {"app.csproj"}
            [] pattern = "*.html" -> {"index.html"}
            [] pattern = "*.css" -> {"style.css"}
            [] pattern = "src/*.tsx" -> {"src/App.tsx"}
            [] OTHER -> {}
    IN {f.name : f \in d} \cap Matching

\* number of the names that exist
CountExisting(d, names) == Cardinality({n \in names : exists(d, n)})

Min(a, b) == IF a < b THEN a ELSE b
Max(a, b) == IF a > b THEN a ELSE b

\* a detector's None
NoneResult ==
    [stack |-> "None", confidence_score |-> 0, framework |-> "None",
     requires_db |-> FALSE, internal_port |-> 0]

\* StackDetectionResult.__init__: lines 16-36, the score clamped at line 29
StackDetectionResult(stack, confidence_score, framework, requires_db, internal_port) ==
    [stack |-> stack, confidence_score |-> Min(100, Max(0, confidence_score)),
     framework |-> framework, requires_db |-> requires_db,
     internal_port |-> internal_port]

\* STACK_PATTERNS: lines 60-142, the two entries that the results use
STACK_PATTERNS(stack) ==
    CASE stack = "node" -> [requires_db |-> TRUE, internal_port |-> 3000]
      [] stack = "python" -> [requires_db |-> TRUE, internal_port |-> 8000]
      [] stack = "php" -> [requires_db |-> TRUE, internal_port |-> 8000]
      [] stack = "go" -> [requires_db |-> TRUE, internal_port |-> 8080]
      [] stack = "ruby" -> [requires_db |-> TRUE, internal_port |-> 3000]
      [] stack = "java" -> [requires_db |-> TRUE, internal_port |-> 8080]
      [] stack = "csharp" -> [requires_db |-> TRUE, internal_port |-> 5000]
      [] stack = "rust" -> [requires_db |-> FALSE, internal_port |-> 8080]
      [] stack = "static" -> [requires_db |-> FALSE, internal_port |-> 3000]

\* _extract_node_framework(): lines 811-820
extract_node_framework(f) ==
    IF Has(f, "npm run build") \/ Has(f, "next build") THEN "Next.js"
    ELSE IF Has(f, "nuxt") THEN "Nuxt"
    ELSE IF Has(f, "gatsby") THEN "Gatsby"
    ELSE "Node.js"

\* _extract_python_framework(): lines 822-831
extract_python_framework(f) ==
    IF Has(f, "django") THEN "Django"
    ELSE IF Has(f, "flask") THEN "Flask"
    ELSE IF Has(f, "fastapi") THEN "FastAPI"
    ELSE "Python"

\* _detect_from_dockerfile(): lines 232-294; f.kw stands for the words of the
\* FROM line
detect_from_dockerfile(d) ==
    IF ~exists(d, "Dockerfile") THEN NoneResult
    ELSE LET f == file(d, "Dockerfile")
             hit ==
               IF Has(f, "node") \/ Has(f, "npm")
                 THEN <<"node", 85, extract_node_framework(f)>>
               ELSE IF Has(f, "python")
                 THEN <<"python", 85, extract_python_framework(f)>>
               ELSE IF Has(f, "php") THEN <<"php", 85, "PHP">>
               ELSE IF Has(f, "golang") \/ Has(f, "go:") THEN <<"go", 85, "Go">>
               ELSE IF Has(f, "ruby") THEN <<"ruby", 85, "Ruby">>
               ELSE IF Has(f, "java") THEN <<"java", 85, "Java">>
               ELSE IF Has(f, "rust") THEN <<"rust", 85, "Rust">>
               ELSE IF Has(f, "nginx") \/ Has(f, "httpd")
                 THEN <<"static", 75, "Web Server">>
               ELSE <<"unknown", 50, "None">>
         IN IF ~f.ok \/ hit[1] = "unknown" THEN NoneResult
            ELSE StackDetectionResult(hit[1], hit[2], hit[3],
                                      STACK_PATTERNS(hit[1]).requires_db,
                                      STACK_PATTERNS(hit[1]).internal_port)

\* a chain that never looks at the dependencies
NodeFramework_NoFramework(deps) == <<"Node.js", 75, FALSE>>

\* the framework chain of _detect_node(), lines 317-355:
\* <<framework, confidence, requires_db>>
NodeFramework(deps) ==
    IF "express" \in deps THEN <<"Express", 90, TRUE>>
    ELSE IF "react" \in deps \/ "react-dom" \in deps THEN <<"React", 90, FALSE>>
    ELSE IF "vue" \in deps THEN <<"Vue", 90, FALSE>>
    ELSE IF "next" \in deps THEN <<"Next.js", 90, TRUE>>
    ELSE IF "nuxt" \in deps THEN <<"Nuxt", 90, TRUE>>
    ELSE IF "nestjs" \in deps \/ "@nestjs/core" \in deps THEN <<"NestJS", 90, TRUE>>
    ELSE IF "gatsby" \in deps THEN <<"Gatsby", 85, FALSE>>
    ELSE IF "svelte" \in deps THEN <<"Svelte", 85, FALSE>>
    ELSE IF "fastify" \in deps THEN <<"Fastify", 90, TRUE>>
    ELSE IF "hapi" \in deps THEN <<"Hapi", 85, TRUE>>
    ELSE <<"Node.js", 75, FALSE>>

\* _detect_node(): lines 296-378
detect_node(d) ==
    IF ~exists(d, "package.json") THEN NoneResult
    ELSE LET f == file(d, "package.json")
             fw == NodeFramework(f.kw)
         IN IF ~f.ok THEN NoneResult
            ELSE StackDetectionResult("node", fw[2], fw[1], fw[3],
                                      STACK_PATTERNS("node").internal_port)

\* _detect_python(): lines 380-449
detect_python(d) ==
    LET n == CountExisting(d, {"requirements.txt", "setup.py", "poetry.lock", "Pipfile"})
        req == file(d, "requirements.txt")
        setup == file(d, "setup.py")
        base == <<"Python", 70 + n * 5, FALSE>>
        fw == IF ~exists(d, "requirements.txt") THEN base
              ELSE IF Has(req, "django") THEN <<"Django", 95, TRUE>>
              ELSE IF Has(req, "flask") THEN <<"Flask", 90, TRUE>>
              ELSE IF Has(req, "fastapi") THEN <<"FastAPI", 90, TRUE>>
              ELSE IF Has(req, "pyramid") THEN <<"Pyramid", 85, TRUE>>
              ELSE IF Has(req, "tornado") THEN <<"Tornado", 85, TRUE>>
              ELSE base
        confidence ==
              IF exists(d, "setup.py")
                 /\ (Has(setup, "flask") \/ Has(setup, "django") \/ Has(setup, "fastapi"))
              THEN Min(95, fw[2] + 5)
              ELSE fw[2]
        raises == \/ exists(d, "requirements.txt") /\ ~req.ok
                  \/ exists(d, "setup.py") /\ ~setup.ok
    IN IF n = 0 \/ raises THEN NoneResult
       ELSE StackDetectionResult("python", Min(100, confidence), fw[1], fw[3],
                                 STACK_PATTERNS("python").internal_port)

\* _detect_php(): lines 451-506
detect_php(d) ==
    LET n == CountExisting(d, {"composer.json"}) + Min(3, Cardinality(glob(d, "*.php")))
        f == file(d, "composer.json")
        fw == IF ~exists(d, "composer.json") THEN <<"PHP", 70 + n * 5>>
              ELSE IF Has(f, "laravel") THEN <<"Laravel", 95>>
              ELSE IF Has(f, "symfony") THEN <<"Symfony", 90>>
              ELSE IF Has(f, "wordpress") \/ Has(f, "woocommerce") THEN <<"WordPress", 90>>
              ELSE IF Has(f, "drupal") THEN <<"Drupal", 90>>
              ELSE IF Has(f, "slim") THEN <<"Slim", 85>>
              ELSE <<"PHP", 70 + n * 5>>
    IN IF n = 0 \/ (exists(d, "composer.json") /\ ~f.ok) THEN NoneResult
       ELSE StackDetectionResult("php", Min(100, fw[2]), fw[1], TRUE,
                                 STACK_PATTERNS("php").internal_port)

\* _detect_go(): lines 508-558
detect_go(d) ==
    LET n == CountExisting(d, {"go.mod", "go.sum"}) + Min(3, Cardinality(glob(d, "*.go")))
        f == file(d, "go.mod")
        fw == IF ~exists(d, "go.mod") THEN <<"Go", 75 + n * 5>>
              ELSE IF Has(f, "gin") THEN <<"Gin", 90>>
              ELSE IF Has(f, "echo") THEN <<"Echo", 90>>
              ELSE IF Has(f, "chi") THEN <<"Chi", 85>>
              ELSE <<"Go", 75 + n * 5>>
    IN IF n = 0 \/ (exists(d, "go.mod") /\ ~f.ok) THEN NoneResult
       ELSE StackDetectionResult("go", Min(100, fw[2]), fw[1], TRUE,
                                 STACK_PATTERNS("go").internal_port)

\* _detect_ruby(): lines 560-610
detect_ruby(d) ==
    LET n == CountExisting(d, {"Gemfile", "Gemfile.lock"}) + Min(3, Cardinality(glob(d, "*.rb")))
        f == file(d, "Gemfile")
        fw == IF ~exists(d, "Gemfile") THEN <<"Ruby", 75 + n * 5>>
              ELSE IF Has(f, "rails") THEN <<"Rails", 95>>
              ELSE IF Has(f, "sinatra") THEN <<"Sinatra", 90>>
              ELSE IF Has(f, "hanami") THEN <<"Hanami", 85>>
              ELSE <<"Ruby", 75 + n * 5>>
    IN IF n = 0 \/ (exists(d, "Gemfile") /\ ~f.ok) THEN NoneResult
       ELSE StackDetectionResult("ruby", Min(100, fw[2]), fw[1], TRUE,
                                 STACK_PATTERNS("ruby").internal_port)

\* _detect_java(): lines 612-664
detect_java(d) ==
    LET n == CountExisting(d, {"pom.xml", "build.gradle", "mvnw"})
             + (IF glob(d, "**/*.java") # {} THEN 1 ELSE 0)
        f == file(d, "pom.xml")
        fw == IF ~exists(d, "pom.xml") THEN <<"Java", 75 + n * 5>>
              ELSE IF Has(f, "spring-boot") THEN <<"Spring Boot", 95>>
              ELSE IF Has(f, "spring") THEN <<"Spring", 90>>
              ELSE IF Has(f, "quarkus") THEN <<"Quarkus", 85>>
              ELSE <<"Java", 75 + n * 5>>
    IN IF n = 0 \/ (exists(d, "pom.xml") /\ ~f.ok) THEN NoneResult
       ELSE StackDetectionResult("java", Min(100, fw[2]), fw[1], TRUE,
                                 STACK_PATTERNS("java").internal_port)

\* _detect_csharp(): lines 666-712
detect_csharp(d) ==
    LET csproj_files == glob(d, "*.csproj")
        n == Min(3, Cardinality(csproj_files)) + Min(1, Cardinality(glob(d, "*.sln")))
        f == file(d, CHOOSE name \in csproj_files : TRUE)
        fw == IF csproj_files = {} THEN <<".NET", 80 + n * 5>>
              ELSE IF Has(f, "aspnetcore") THEN <<"ASP.NET Core", 95>>
              ELSE IF Has(f, "aspnet") THEN <<"ASP.NET", 90>>
              ELSE <<".NET", 80 + n * 5>>
    IN IF n = 0 \/ (csproj_files # {} /\ ~f.ok) THEN NoneResult
       ELSE StackDetectionResult("csharp", Min(100, fw[2]), fw[1], TRUE,
                                 STACK_PATTERNS("csharp").internal_port)

\* _detect_rust(): lines 714-767
detect_rust(d) ==
    LET n == CountExisting(d, {"Cargo.toml", "Cargo.lock"})
             + (IF glob(d, "**/*.rs") # {} THEN 1 ELSE 0)
        f == file(d, "Cargo.toml")
        fw == IF ~exists(d, "Cargo.toml") THEN <<"Rust", 80 + n * 5>>
              ELSE IF Has(f, "actix-web") THEN <<"Actix-web", 95>>
              ELSE IF Has(f, "rocket") THEN <<"Rocket", 95>>
              ELSE IF Has(f, "axum") THEN <<"Axum", 90>>
              ELSE IF Has(f, "warp") THEN <<"Warp", 85>>
              ELSE <<"Rust", 80 + n * 5>>
    IN IF n = 0 \/ (exists(d, "Cargo.toml") /\ ~f.ok) THEN NoneResult
       ELSE StackDetectionResult("rust", Min(100, fw[2]), fw[1], FALSE,
                                 STACK_PATTERNS("rust").internal_port)

\* _detect_static(): lines 769-809; index.html is listed by line 774 and again
\* by the glob of line 778
detect_static(d) ==
    LET n == CountExisting(d, {"index.html", "index.htm"})
             + Min(3, Cardinality(glob(d, "*.html")))
             + (IF glob(d, "*.css") # {} THEN 1 ELSE 0)
    IN IF glob(d, "src/*.tsx") # {} \/ glob(d, "src/*.jsx") # {} THEN NoneResult
       ELSE IF n = 0 THEN NoneResult
       ELSE StackDetectionResult("static", Min(100, 60 + n * 3), "Static Site", FALSE,
                                 STACK_PATTERNS("static").internal_port)

\* the names that a detector hands to Path.exists() before its try block
\* (the Dockerfile: line 234; node: 298; python: 384-390; php: 455; go: 512-514;
\* ruby: 564-566; java: 616-620; rust: 718-720; static, which has no try block:
\* 773-775); _detect_csharp only globs, which does not stat the entries
StatNames(detector) ==
    CASE detector = "dockerfile" -> {"Dockerfile"}
      [] detector = "node" -> {"package.json"}
      [] detector = "python" -> {"requirements.txt", "setup.py", "poetry.lock", "Pipfile"}
      [] detector = "php" -> {"composer.json"}
      [] detector = "go" -> {"go.mod", "go.sum"}
      [] detector = "ruby" -> {"Gemfile", "Gemfile.lock"}
      [] detector = "java" -> {"pom.xml", "build.gradle", "mvnw"}
      [] detector = "csharp" -> {}
      [] detector = "rust" -> {"Cargo.toml", "Cargo.lock"}
      [] detector = "static" -> {"index.html", "index.htm"}

MarkerDetectors == {"node", "python", "php", "go", "ruby", "java", "csharp", "rust"}

\* the detector raises outside its try block: the exception leaves the detector
Raises(d, detector) == \E f \in d : f.name \in StatNames(detector) /\ ~f.stat

\* the marker-file detectors in the order in which detect() runs them and
\* appends their results, lines 161-199
MarkerResults(d) ==
    <<detect_node(d), detect_python(d), detect_php(d), detect_go(d),
      detect_ruby(d), detect_java(d), detect_csharp(d), detect_rust(d)>>

IsResult(r) == r # NoneResult

\* results.sort(key=confidence_score, reverse=True)[0], lines 210-211: the sort
\* is stable, so the first of the results with the greatest score
FirstBest(results) ==
    LET i == CHOOSE i \in 1..Len(results) :
                 /\ \A k \in 1..Len(results) :
                        results[k].confidence_score <= results[i].confidence_score
                 /\ \A k \in 1..(i - 1) :
                        results[k].confidence_score < results[i].confidence_score
    IN results[i]

\* the result of line 218 and of line 226
Unknown == StackDetectionResult("unknown", 0, "None", FALSE, 3000)

\* detect(): lines 150-230; an exception that leaves a detector is caught at
\* line 224 and the result of line 226 is returned
detect(d) ==
    LET dockerfile_result == detect_from_dockerfile(d)
        marker == SelectSeq(MarkerResults(d), IsResult)
        results == IF marker # <<>> THEN marker
                   ELSE SelectSeq(<<detect_static(d)>>, IsResult)
    IN IF Raises(d, "dockerfile") THEN Unknown
       ELSE IF IsResult(dockerfile_result) /\ dockerfile_result.confidence_score >= 90
         THEN dockerfile_result
       ELSE IF \E s \in MarkerDetectors : Raises(d, s) THEN Unknown
       ELSE IF marker = <<>> /\ Raises(d, "static") THEN Unknown
       ELSE IF results # <<>> THEN FirstBest(results)
       ELSE IF IsResult(dockerfile_result) THEN dockerfile_result
       ELSE Unknown

\* no detection in progress
NotRun == [stack |-> "NotRun"]

InitDetect ==
    /\ dir = {}
    /\ detected = NotRun

\* the clone, or a later change of the working tree, puts a file at repo_path
WriteFile(f) ==
    /\ Cardinality({g.name : g \in dir} \cup {f.name}) <= MaxFiles
    /\ f \notin dir
    /\ dir' = {g \in dir : g.name # f.name} \cup {f}
    /\ detected' = NotRun
    /\ UNCHANGED <<portVars, queueVars, deployVars, execVars>>

\* a file of repo_path goes away
RemoveFile(name) ==
    /\ exists(dir, name)
    /\ dir' = {g \in dir : g.name # name}
    /\ detected' = NotRun
    /\ UNCHANGED <<portVars, queueVars, deployVars, execVars>>

\* StackDetector(repo_path).detect()
Detect ==
    /\ detected = NotRun
    /\ detected' = detect(dir)
    /\ UNCHANGED <<dir, portVars, queueVars, deployVars, execVars>>

NextDetect ==
    \/ \E f \in Catalogue : WriteFile(f)
    \/ \E name \in FileNames : RemoveFile(name)
    \/ Detect

(***************************************************************************)
(* DeploymentExecutor (backend/services/deployment_executor.py) and        *)
(* clone_repo (backend/services/git_service.py): the external calls        *)
(*                                                                         *)
(* A finished subprocess.run is [kind, returncode, stdout, stderr]: kind   *)
(* "exit" when the command ended, "timeout" when TimeoutExpired was        *)
(* raised (stdout and stderr are then what was captured until the expiry), *)
(* "oserror" when the command could not be started.  A result's logs are   *)
(* the sequence of the texts joined into its "logs" entry, <<>> when the   *)
(* result has no such entry.                                               *)
(***************************************************************************)
Stdouts == {"", "out"}
Stderrs == {"", "err"}

Processes ==
    [kind : {"exit"}, returncode : {0, 1}, stdout : Stdouts, stderr : Stderrs]
    \cup [kind : {"timeout"}, returncode : {-1}, stdout : Stdouts, stderr : Stderrs]
    \cup [kind : {"oserror"}, returncode : {-1}, stdout : {""}, stderr : {""}]

NoProcess == [kind |-> "none", returncode |-> -1, stdout |-> "", stderr |-> ""]

NoError == [msg |-> "None", text |-> ""]
ErrorText(msg, text) == [msg |-> msg, text |-> text]

\* a dict {"success": ..., "error": ..., "logs": ...}
ExecResult(success, error, logs) == [success |-> success, error |-> error, logs |-> logs]

\* the shape shared by _build_image, lines 126-164, and _start_deployment,
\* lines 177-215: captured output on a non-zero exit, a message of its own for
\* TimeoutExpired, str(e) for any other exception
RunWithTimeoutHandler(p, what) ==
    CASE p.kind = "exit" /\ p.returncode # 0 ->
            ExecResult(FALSE, ErrorText(what \o " failed", p.stderr), <<p.stdout, p.stderr>>)
      [] p.kind = "exit" /\ p.returncode = 0 ->
            ExecResult(TRUE, NoError, <<p.stdout>>)
      [] p.kind = "timeout" ->
            ExecResult(FALSE, ErrorText(what \o " timed out", ""), <<>>)
      [] p.kind = "oserror" ->
            ExecResult(FALSE, ErrorText("str(e)", "OSError"), <<>>)

\* _build_image(): lines 115-164
build_image(p) == RunWithTimeoutHandler(p, "Docker build")

\* _start_deployment(): lines 166-215
start_deployment(p) == RunWithTimeoutHandler(p, "docker-compose up")

\* the shape shared by stop_deployment, lines 307-336, and restart_deployment,
\* lines 348-377: no handler for TimeoutExpired, so a timeout is reported by
\* the handler of Exception
RunWithoutTimeoutHandler(p, what) ==
    CASE p.kind = "exit" /\ p.returncode # 0 ->
            ExecResult(FALSE, ErrorText(what \o " failed", p.stderr), <<>>)
      [] p.kind = "exit" /\ p.returncode = 0 ->
            ExecResult(TRUE, NoError, <<p.stdout>>)
      [] p.kind = "timeout" ->
            ExecResult(FALSE, ErrorText("str(e)", "TimeoutExpired"), <<>>)
      [] p.kind = "oserror" ->
            ExecResult(FALSE, ErrorText("str(e)", "OSError"), <<>>)

\* DeploymentExecutor.stop_deployment(): lines 297-336
executor_stop_deployment(p) == RunWithoutTimeoutHandler(p, "docker-compose down")

\* DeploymentExecutor.restart_deployment(): lines 338-377
executor_restart_deployment(p) == RunWithoutTimeoutHandler(p, "docker-compose restart")

\* no external operation in progress
NoCall == [op |-> "none", pc |-> "idle", result |-> ExecResult(FALSE, NoError, <<>>),
           proc |-> NoProcess, made |-> {}]

InitExec ==
    /\ fs = {}
    /\ call = NoCall

Returned(op, result, proc, made) ==
    [op |-> op, pc |-> "returned", result |-> result, proc |-> proc, made |-> made]

\* DeploymentExecutor.deploy(): lines 57-61, the check of repo_path
executor_deploy_check(path_exists) ==
    /\ call = NoCall
    /\ call' = IF path_exists
               THEN [NoCall EXCEPT !.op = "deploy", !.pc = "write"]
               ELSE Returned("deploy",
                             ExecResult(FALSE, ErrorText("Repository path not found", ""), <<>>),
                             NoProcess, {})
    /\ UNCHANGED fs
    /\ ExecOnly

\* deploy(): lines 63-71, the two write_text; an OSError of the second one
\* leaves the first file and goes to the handler of line 110
executor_deploy_write(ok) ==
    /\ call.op = "deploy" /\ call.pc = "write"
    /\ LET written == IF ok THEN {"Dockerfile", "docker-compose.yml"} ELSE {"Dockerfile"}
       IN /\ fs' = fs \cup written
          /\ call' = IF ok
                     THEN [call EXCEPT !.pc = "build", !.made = written \ fs]
                     ELSE Returned("deploy", ExecResult(FALSE, ErrorText("str(e)", "OSError"), <<>>),
                                   NoProcess, written \ fs)
    /\ ExecOnly

\* deploy(): lines 73-79, the build
executor_deploy_build(p) ==
    /\ call.op = "deploy" /\ call.pc = "build"
    /\ LET build_result == build_image(p)
       IN call' = IF build_result.success
                  THEN [call EXCEPT !.pc = "start"]
                  ELSE Returned("deploy", build_result, p, call.made)
    /\ UNCHANGED fs
    /\ ExecOnly

\* deploy(): lines 81-108, docker-compose up, then the container id (id_found)
\* and its logs (have_logs)
executor_deploy_start(p, id_found, have_logs) ==
    /\ call.op = "deploy" /\ call.pc = "start"
    /\ LET deploy_result == start_deployment(p)
           error == IF id_found THEN NoError ELSE ErrorText("Could not find container ID", "")
           logs == IF id_found /\ have_logs THEN <<"container">> ELSE <<>>
       IN call' = IF deploy_result.success
                  THEN Returned("deploy", ExecResult(TRUE, error, logs), p, call.made)
                  ELSE Returned("deploy", deploy_result, p, call.made)
    /\ UNCHANGED fs
    /\ ExecOnly

\* DeploymentExecutor.stop_deployment()
executor_stop(p) ==
    /\ call = NoCall
    /\ call' = Returned("stop", executor_stop_deployment(p), p, {})
    /\ UNCHANGED fs
    /\ ExecOnly

\* DeploymentExecutor.restart_deployment()
executor_restart(p) ==
    /\ call = NoCall
    /\ call' = Returned("restart", executor_restart_deployment(p), p, {})
    /\ UNCHANGED fs
    /\ ExecOnly

\* the ways in which download_repo_as_zip ends, lines 78-169
Downloads == {"ok", "http_error", "connect_timeout", "timeout_no_data", "timeout_partial"}

\* clone_repo(): lines 184-208, up to the download
clone_begin(is_github) ==
    /\ call = NoCall
    /\ IF is_github
       THEN /\ fs' = (fs \cup {"repo_folder"}) \ {"zip"}
            /\ call' = [NoCall EXCEPT !.op = "clone", !.pc = "download",
                                      !.made = {"repo_folder"} \ fs]
       ELSE /\ fs' = fs
            /\ call' = Returned("clone", ExecResult(FALSE, NoError, <<>>), NoProcess, {})
    /\ ExecOnly

\* download_repo_as_zip(): lines 67-169, and the rest of clone_repo, lines
\* 210-266.  requests raises a RequestException on a timeout: before the file
\* is opened (connect_timeout), after it is opened and before the first chunk
\* (timeout_no_data: the finally of line 161 removes the empty file), or
\* later (timeout_partial: the file has a size and stays).  After a failed
\* download clone_repo removes the folder only when it is empty.
clone_download(how) ==
    /\ call.op = "clone" /\ call.pc = "download"
    /\ LET success == how = "ok"
           timed_out == how \in {"connect_timeout", "timeout_no_data", "timeout_partial"}
           zip == IF how \in {"ok", "timeout_partial"} THEN {"zip"} ELSE {}
           guide == IF success THEN {"install-guide.md"} ELSE {}
           after == fs \cup zip \cup guide
           empty == after \cap {"zip", "install-guide.md", "Dockerfile", "docker-compose.yml"} = {}
       IN /\ fs' = IF ~success /\ empty THEN after \ {"repo_folder"} ELSE after
          /\ call' = Returned("clone", ExecResult(success, NoError, <<>>),
                              [NoProcess EXCEPT !.kind = IF timed_out THEN "timeout" ELSE "exit"],
                              call.made \cup zip \cup (guide \ fs))
    /\ ExecOnly

\* the caller takes the result
executor_return ==
    /\ call.pc = "returned"
    /\ call' = NoCall
    /\ UNCHANGED fs
    /\ ExecOnly

NextExec ==
    \/ \E path_exists \in BOOLEAN : executor_deploy_check(path_exists)
    \/ \E ok \in BOOLEAN : executor_deploy_write(ok)
    \/ \E p \in Processes : executor_deploy_build(p)
    \/ \E p \in Processes, id_found \in BOOLEAN, have_logs \in BOOLEAN :
           executor_deploy_start(p, id_found, have_logs)
    \/ \E p \in Processes : executor_stop(p)
    \/ \E p \in Processes : executor_restart(p)
    \/ \E is_github \in BOOLEAN : clone_begin(is_github)
    \/ \E how \in Downloads : clone_download(how)
    \/ executor_return

Init == InitPort /\ InitQueue /\ InitDeploy /\ InitDetect /\ InitExec

\* concurrent callers of the one process-wide PortManager
SpecPort == Init /\ [][NextPort]_vars
\* the PortManager called by one caller at a time
SpecPortSeq == Init /\ [][NextPortSeq]_vars
SpecPortApi == Init /\ [][NextPortApi]_vars
\* the whole public interface, one call at a time
SpecPortApiSeq == Init /\ [][NextPortApiSeq]_vars
\* the clone queue: endpoints, dispatcher and workers
SpecQueue == Init /\ [][NextQueue]_vars

\* The dispatcher thread and the pool threads are scheduled by the operating
\* system: a step that stays possible is eventually taken.  The clone itself
\* ends because clone_repo returns or raises (its downloads and subprocesses
\* carry timeouts).  threading.Lock promises no order among the threads that
\* wait for it, so a worker waiting for _active_lock gets weak fairness only.
\* Nothing is assumed about the API clients.
FairQueue ==
    /\ WF_vars(DispatchTop)
    /\ WF_vars(DispatchSleep)
    /\ WF_vars(DispatchGet)
    /\ WF_vars(DispatchInc)
    /\ WF_vars(DispatchMark)
    /\ \A j \in JobIds :
          /\ WF_vars(j \in DOMAIN job /\ \E o \in {"ok", "fail", "raise"} : ProcessClone(j, o))
          /\ WF_vars(j \in DOMAIN job /\ \E b \in BOOLEAN : ProcessCallback(j, b))
          /\ WF_vars(j \in DOMAIN job /\ ProcessFinally(j))

SpecQueueFair == Init /\ [][NextQueue]_vars /\ FairQueue
\* the deployment pipeline
SpecDeploy == Init /\ [][NextDeploy]_vars
\* the deployment pipeline, the server process restarted between requests
SpecDeployRestart == Init /\ [][NextDeployRestart]_vars

\* the detector alone: directories of up to MaxFiles files of the catalogue
SpecDetect == Init /\ [][NextDetect]_vars

\* the external calls alone
SpecExec == Init /\ [][NextExec]_vars

(***************************************************************************)
(* Properties                                                              *)
(***************************************************************************)

\* C1: concurrent allocate_port calls never hand the same port to two different
\* names: no port is held (returned by allocate_port and not released since) under
\* two names at once.
C1_DistinctPortsWhileHeld ==
    \A g1 \in held, g2 \in held : g1[2] = g2[2] => g1[1] = g2[1]

\* C5: allocate_port(name) called while name already owns a port returns that
\* port and leaves the allocated ports, their number and their owners as they were.
C5_AllocateIdempotent ==
    [][\A t \in Threads :
          (/\ pm[t].op = "allocate"
           /\ pm[t].pc # "idle"
           /\ pm[t].had # None
           /\ pm'[t] # pm[t])
          => (/\ \/ pm'[t].pc = "scan"
                 \/ pm'[t].pc = "idle" /\ pm'[t].ret = RetPort(pm[t].had, TRUE)
              /\ allocated_ports' = allocated_ports
              /\ Cardinality(allocated_ports') = pm[t].cnt0
              /\ port_to_repo' = port_to_repo)]_vars

\* a second allocate_port for a name has returned the port the name already owned
C5_Witness ==
    \E t \in Threads :
        /\ pm[t].pc = "idle"
        /\ pm[t].op = "allocate"
        /\ pm[t].ret.found
        /\ pm[t].ret.port \in allocated_ports
        /\ get_port_for_repo(port_to_repo, pm[t].name) = pm[t].ret.port
        /\ pm[t].ret.port = MAX_PORT

\* the allocation of the ports other than p
OtherPorts(alloc, d, p) ==
    [q \in Ports \ {p} |-> <<is_allocated(alloc, q), get_repo_for_port(d, q)>>]

\* C13: release_port(port) for a port that is not allocated returns False and
\* changes nothing; for an allocated port it returns True, the port is then not
\* allocated and has no owner, no other port's allocation changes, and
\* reserve_port accepts every port of the range that is not allocated.
C13_ReleaseSemantics ==
    /\ [][\A t \in Threads :
            /\ (pm[t].pc = "idle" /\ pm'[t] # pm[t] /\ pm'[t].op = "release")
                  => IF is_allocated(allocated_ports, pm'[t].port)
                     THEN pm'[t].pc = "discard"
                     ELSE /\ pm'[t].pc = "idle"
                          /\ ~pm'[t].ret.ok
                          /\ allocated_ports' = allocated_ports
                          /\ port_to_repo' = port_to_repo
            /\ (pm[t].op = "release" /\ pm[t].pc = "pop" /\ pm'[t].pc = "idle")
                  => /\ pm'[t].ret.ok
                     /\ ~is_allocated(allocated_ports', pm[t].port)
                     /\ get_repo_for_port(port_to_repo', pm[t].port) = ""
                     /\ \A n \in RepoNames : get_port_for_repo(port_to_repo', n) # pm[t].port
                     /\ OtherPorts(allocated_ports', port_to_repo', pm[t].port)
                           = OtherPorts(allocated_ports, port_to_repo, pm[t].port)
            /\ (pm[t].op = "release" /\ pm[t].pc = "discard" /\ pm'[t] # pm[t])
                  => /\ pm'[t].pc = "pop"
                     /\ OtherPorts(allocated_ports', port_to_repo', pm[t].port)
                           = OtherPorts(allocated_ports, port_to_repo, pm[t].port)]_vars
    /\ [](\A t \in Threads, p \in Ports, n \in RepoNames :
            (Alone(t) /\ pm[t].pc = "idle" /\ ~is_allocated(allocated_ports, p))
               => ENABLED (ReserveCheck(t, p, n) /\ pm'[t].pc = "radd"))

\* t1 released a port, and t2's allocate_port then assigned that port anew
C13_Witness ==
    /\ pm["t1"].pc = "idle" /\ pm["t1"].op = "release" /\ pm["t1"].ret.ok
    /\ pm["t2"].pc = "idle" /\ pm["t2"].op = "allocate" /\ ~pm["t2"].ret.found
    /\ pm["t2"].ret.port = pm["t1"].port
    /\ is_allocated(allocated_ports, pm["t1"].port)
    /\ get_repo_for_port(port_to_repo, pm["t1"].port) = pm["t2"].name

\* C14: allocate_port(name) called when every port of the range is allocated and
\* name owns none raises, and no step of the call changes the allocated ports or
\* their owners.
C14_ExhaustedNoPartialAllocation ==
    [][\A t \in Threads :
          (/\ pm[t].op = "allocate" /\ pm[t].pc # "idle"
           /\ pm[t].had = None /\ pm[t].cnt0 = Cardinality(Ports)
           /\ pm'[t] # pm[t])
          => /\ allocated_ports' = allocated_ports
             /\ port_to_repo' = port_to_repo
             /\ pm'[t].pc \in {"scan", "find", "idle"}
             /\ pm'[t].pc = "idle" => pm'[t].ret.raised]_vars

\* allocate_port raised for a name without a port while the whole range is allocated
C14_Witness ==
    \E t \in Threads :
        /\ pm[t].pc = "idle" /\ pm[t].op = "allocate" /\ pm[t].ret.raised
        /\ allocated_ports = Ports
        /\ get_port_for_repo(port_to_repo, pm[t].name) = None
        /\ \A p \in Ports : get_repo_for_port(port_to_repo, p) \in RepoNames \ {pm[t].name}

\* the ports that port_to_repo gives to a name
PortsOf(d, repo_name) == {d[i].port : i \in {k \in 1..Len(d) : d[k].name = repo_name}}

\* C28: whenever no PortManager call is in progress, each name owns at most one
\* port, the allocated ports are the ports that have an owner, and every
\* allocated port lies in [MIN_PORT, MAX_PORT].
C28_AllocatorConsistent ==
    (\A t \in Threads : pm[t].pc = "idle") =>
        /\ \A n \in RepoNames : Cardinality(PortsOf(port_to_repo, n)) <= 1
        /\ allocated_ports = DictKeys(port_to_repo)
        /\ \A p \in allocated_ports : MIN_PORT <= p /\ p <= MAX_PORT

\* ---- clone queue ----
AllowedJobTransitions ==
    {<<PENDING, IN_PROGRESS>>, <<PENDING, CANCELLED>>,
     <<IN_PROGRESS, COMPLETED>>, <<IN_PROGRESS, FAILED>>}

\* C2: the only status changes of a clone job are PENDING -> IN_PROGRESS,
\* PENDING -> CANCELLED, IN_PROGRESS -> COMPLETED and IN_PROGRESS -> FAILED.
C2_JobTransitions ==
    [][\A j \in DOMAIN job :
          job'[j].status # job[j].status
          => <<job[j].status, job'[j].status>> \in AllowedJobTransitions]_vars

InProgress == {j \in DOMAIN job : job[j].status = IN_PROGRESS}

\* C3: the number of jobs whose status is IN_PROGRESS never exceeds the cap.
C3_InProgressWithinCap == Cardinality(InProgress) <= max_concurrent

\* the cap binds: as many jobs IN_PROGRESS as the cap allows, the dispatcher back
\* at its loop test and a PENDING job waiting in the queue
C3_Witness ==
    /\ Cardinality(InProgress) = max_concurrent
    /\ dq.pc = "top"
    /\ queue # <<>>
    /\ job[Head(queue)].status = PENDING

\* C6: cancel_job returns True exactly when the job exists and is PENDING when
\* its status is read, and then sets it CANCELLED and changes nothing else; in
\* every other case it returns False and changes no job.
C6_CancelOnlyPending ==
    /\ \A id \in JobIds :
          (cl.pc = "idle" /\ Serving) =>
             IF id \in jobs /\ job[id].status = PENDING
             THEN /\ ENABLED (cancel_job_check(id) /\ cl'.pc = "cancel_set" /\ cl'.job = id)
                  /\ ~ENABLED (cancel_job_check(id) /\ cl'.pc = "idle")
             ELSE /\ ENABLED (cancel_job_check(id) /\ cl'.pc = "idle")
                  /\ ~ENABLED (cancel_job_check(id) /\ (cl'.pc # "idle" \/ job' # job \/ jobs' # jobs))
    /\ cl.pc = "cancel_set" =>
          /\ ENABLED cancel_job_set
          /\ ~ENABLED (cancel_job_set /\
                       ~(/\ job' = [job EXCEPT ![cl.job].status = CANCELLED]
                         /\ jobs' = jobs
                         /\ cl'.pc = "idle"))

\* a job cancelled while it waited, and a job that is no longer PENDING, which
\* cancel_job refuses
C6_Witness ==
    /\ cl.pc = "idle"
    /\ \E j \in jobs : job[j].status = CANCELLED /\ wk[j] = "none"
    /\ \E j \in jobs : job[j].status = IN_PROGRESS

\* C7: the repository-cloned callback runs exactly once, with the job's repository
\* id and target path, for a job that becomes COMPLETED, never for a job that ends
\* FAILED or CANCELLED, and a job for which it ran stays COMPLETED.
C7_CallbackOncePerCompleted ==
    \A j \in DOMAIN job :
        /\ Len(cloned[j]) <= 1
        /\ \A k \in 1..Len(cloned[j]) :
              cloned[j][k] = [repository_id |-> job[j].repository_id,
                              path |-> job[j].target_path]
        /\ (job[j].status = COMPLETED /\ wk[j] \in {"finally", "done"}) => Len(cloned[j]) = 1
        /\ job[j].status \in {FAILED, CANCELLED} => Len(cloned[j]) = 0
        /\ Len(cloned[j]) = 1 => job[j].status = COMPLETED

\* C9: jobs are marked IN_PROGRESS in the order they were enqueued (ids are given
\* in that order), and when a job is marked every job enqueued before it has been
\* marked before or was skipped as CANCELLED.
C9_FifoDispatch ==
    /\ \A a, b \in 1..Len(dispatched) : a < b => dispatched[a] < dispatched[b]
    /\ \A k \in 1..Len(dispatched) :
          \A i \in 1..(dispatched[k] - 1) :
              \/ \E m \in 1..(k - 1) : dispatched[m] = i
              \/ job[i].status = CANCELLED

\* two jobs were dispatched around a cancelled one
C9_Witness ==
    /\ Len(dispatched) >= 2
    /\ \E i \in DOMAIN job :
          /\ job[i].status = CANCELLED
          /\ wk[i] = "none"
          /\ dispatched[1] < i
          /\ i < dispatched[Len(dispatched)]

\* jobs that hold a slot of the pool: counted by the dispatcher and not yet
\* through the `finally` of _process_job
Holding ==
    {j \in DOMAIN job : wk[j] \in {"submitted", "callback", "finally"}}

\* C8: a job marked IN_PROGRESS eventually becomes COMPLETED or FAILED and
\* leaves the pool; the active count is decremented exactly once per job on
\* every exit path, so it always equals the number of jobs holding a slot; and
\* a PENDING job is eventually dispatched (or cancelled) while the dispatcher
\* is running.
C8_NoStarvation ==
    /\ [](/\ \A j \in DOMAIN job : decs[j] = IF wk[j] = "done" THEN 1 ELSE 0
          /\ active_jobs = Cardinality(Holding) + IF dq.pc = "mark" THEN 1 ELSE 0)
    /\ \A j \in JobIds :
          /\ (j \in DOMAIN job /\ wk[j] = "submitted")
                ~> (j \in DOMAIN job /\ job[j].status \in {COMPLETED, FAILED})
          /\ (j \in DOMAIN job /\ wk[j] = "submitted")
                ~> (j \in DOMAIN job /\ wk[j] = "done" /\ decs[j] = 1)
          /\ (j \in DOMAIN job /\ job[j].status = PENDING /\ is_running)
                ~> (~is_running \/ (j \in DOMAIN job /\ job[j].status # PENDING))

SumOfCounts(st) ==
    LET F(k) == IF k \in DOMAIN st THEN st[k] ELSE 0
    IN F("pending") + F("in_progress") + F("completed") + F("failed") + F("cancelled")

\* C17: get_queue_status reports, for each status, the number of jobs of the
\* table in that status, and the active-worker count; the per-status counts it
\* reports add up to the total it reports, the number of jobs in the table.
C17_StatusCounts ==
    LET st == get_queue_status IN
    /\ st.total = Cardinality(jobs)
    /\ st.pending = CountStatus(PENDING)
    /\ st.in_progress = CountStatus(IN_PROGRESS)
    /\ st.completed = CountStatus(COMPLETED)
    /\ st.failed = CountStatus(FAILED)
    /\ st.active_jobs = active_jobs
    /\ SumOfCounts(st) = st.total

C26_ActiveJobsBounds ==
    /\ 0 <= active_jobs
    /\ active_jobs <= max_concurrent
    /\ Cardinality(InProgress) <= active_jobs

\* the pool is full; of the jobs that active_jobs counts, the one dispatched
\* last is not yet marked and another one has its terminal status already
C26_Witness ==
    /\ active_jobs = max_concurrent
    /\ dq.pc = "mark"
    /\ Cardinality(InProgress) = max_concurrent - 2
    /\ \E j \in DOMAIN job : wk[j] = "finally" /\ job[j].status \in {COMPLETED, FAILED}

\* the clone of job j has been executed
CloneExecuted(j) == wk[j] \in {"callback", "finally", "done"}

\* C27: a job for which cancel_job returns True is never cloned and never gets
\* the repository-cloned update.  cancel_job returns True in the step that
\* writes CANCELLED, and only that step writes CANCELLED; so: when it writes,
\* the clone has not been executed, and a job that is CANCELLED is neither
\* submitted to the pool nor cloned.
C27_CancelledNeverCloned ==
    [][/\ (cl.pc = "cancel_set" /\ cl'.pc = "idle") =>
             (~CloneExecuted(cl.job) /\ cloned[cl.job] = <<>>)
       /\ \A j \in DOMAIN job :
             /\ (wk[j] = "none" /\ wk'[j] = "submitted") => job[j].status # CANCELLED
             /\ (~CloneExecuted(j) /\ CloneExecuted(j)') => job[j].status # CANCELLED
             /\ cloned'[j] # cloned[j] => job[j].status # CANCELLED]_vars

\* ---- deployments ----
\* C4: delete_deployment on an existing deployment, whatever its status and
\* whether or not the stop it attempts succeeds, returns True, leaves the
\* deployment's port unallocated and the record gone.
C4_DeleteReleasesPort ==
    (ev.op = "delete" /\ ev.before \in DeploymentStatus) =>
        /\ ev.ok
        /\ ~is_allocated(allocated_ports, ev.port)
        /\ get_repo_for_port(port_to_repo, ev.port) = ""
        /\ get_deployment(ev.id) = {}

\* a RUNNING deployment was deleted and the stop it attempted failed
C4_Witness ==
    /\ ev.op = "delete"
    /\ ev.before = DEP_RUNNING
    /\ ev.stop = "failed"
    /\ ev.port \in Ports
    /\ ~is_allocated(allocated_ports, ev.port)
    /\ ~Exists(ev.id)

AllowedDeploymentTransitions ==
    {<<DEP_PENDING, DEP_RUNNING>>, <<DEP_RUNNING, DEP_STOPPED>>, <<DEP_RUNNING, DEP_ERROR>>,
     <<DEP_STOPPED, DEP_RUNNING>>, <<DEP_ERROR, DEP_RUNNING>>,
     <<DEP_PENDING, DEP_ERROR>>, <<DEP_STOPPED, DEP_ERROR>>}

\* C10: a deployment is created PENDING, and its status changes only along
\* PENDING -> RUNNING, RUNNING -> STOPPED, RUNNING -> ERROR, STOPPED -> RUNNING,
\* ERROR -> RUNNING and any -> ERROR.
C10_Lifecycle ==
    [][\A id \in DeploymentIds :
          /\ (~Exists(id) /\ id \in DOMAIN deployments')
                => deployments'[id].status = DEP_PENDING
          /\ (Exists(id) /\ id \in DOMAIN deployments'
                /\ deployments'[id].status # deployments[id].status)
                => <<deployments[id].status, deployments'[id].status>>
                       \in AllowedDeploymentTransitions]_vars

\* what create_deployment stored for a later start: stack, confidence, port and
\* the two generated files
Stored(row) ==
    <<row.stack, row.confidence_score, row.assigned_port, row.dockerfile_content,
      row.compose_content, row.repo_name, row.repository_id>>

\* C11: a start whose executor fails leaves the deployment in ERROR with an error
\* message and with its stored stack, confidence, port and generated files as
\* they were, and allocates or releases no port; a start of a deployment in ERROR
\* marks it RUNNING from the same stored values, creates no record and allocates
\* no port.
C11_FailedStartKeepsArtifacts ==
    [][\A id \in DeploymentIds :
          /\ (id \in inflight /\ id \notin inflight' /\ Exists(id)
                /\ ev'.op = "deploy" /\ ~ev'.ok)
                => /\ id \in DOMAIN deployments'
                   /\ deployments'[id].status = DEP_ERROR
                   /\ deployments'[id].error_message # ""
                   /\ Stored(deployments'[id]) = Stored(deployments[id])
                   /\ allocated_ports' = allocated_ports
                   /\ port_to_repo' = port_to_repo
          /\ (id \notin inflight /\ id \in inflight' /\ Exists(id)
                /\ deployments[id].status = DEP_ERROR)
                => /\ deployments'[id].status = DEP_RUNNING
                   /\ Stored(deployments'[id]) = Stored(deployments[id])
                   /\ dep_counter' = dep_counter
                   /\ allocated_ports' = allocated_ports
                   /\ port_to_repo' = port_to_repo]_vars

\* a deployment whose start failed is being started again, with what create stored
C11_Witness ==
    /\ ev.op = "deploy_begin"
    /\ ev.before = DEP_ERROR
    /\ Exists(ev.id)
    /\ ev.id \in inflight
    /\ deployments[ev.id].error_message = "deploy failed"
    /\ deployments[ev.id].compose_content =
          <<"compose", deployments[ev.id].stack, deployments[ev.id].repo_name, ev.port>>
    /\ is_allocated(allocated_ports, ev.port)

\* C12: no two existing deployment records have the same assigned port.
C12_UniqueAssignedPorts ==
    \A a \in DOMAIN deployments, b \in DOMAIN deployments :
        a # b => deployments[a].assigned_port # deployments[b].assigned_port

\* two records exist, one on each port of the range, the second just created
C12_Witness ==
    /\ Cardinality(DOMAIN deployments) = 2
    /\ \E a \in DOMAIN deployments, b \in DOMAIN deployments :
          deployments[a].assigned_port = MIN_PORT /\ deployments[b].assigned_port = MAX_PORT
    /\ ev.op = "create" /\ ev.ok

\* C15: a stop_deployment whose stop command fails returns False, leaves the
\* record as it was, leaves every port's allocation and owner as they were, and
\* the deployment's own port is still allocated to its repository.
C15_FailedStopKeepsPorts ==
    [][(ev'.op = "stop" /\ ev'.stop = "failed")
          => /\ ~ev'.ok
             /\ allocated_ports' = allocated_ports
             /\ port_to_repo' = port_to_repo
             /\ deployments' = deployments
             /\ Exists(ev'.id)
             /\ is_allocated(allocated_ports', deployments[ev'.id].assigned_port)
             /\ get_repo_for_port(port_to_repo', deployments[ev'.id].assigned_port)
                   = deployments[ev'.id].repo_name]_vars

\* the stop of a RUNNING deployment failed while another deployment holds the other port
C15_Witness ==
    /\ ev.op = "stop" /\ ev.stop = "failed" /\ ~ev.ok
    /\ ev.before = DEP_RUNNING
    /\ Exists(ev.id)
    /\ deployments[ev.id].status = DEP_RUNNING
    /\ is_allocated(allocated_ports, ev.port)
    /\ Cardinality(DOMAIN deployments) = 2

\* a request POST /create
CreateStep ==
    \E repository_id \in RepoIdArgs, repo_name \in RepoNames, path_ok \in BOOLEAN,
       detection \in Detections :
          create_deployment(repository_id, repo_name, path_ok, detection)

\* C24: a create request that fails has allocated no port and has persisted no
\* deployment record.
C24_RejectedCreateHasNoEffect ==
    [][(CreateStep /\ ~ev'.ok) =>
          /\ allocated_ports' = allocated_ports
          /\ port_to_repo' = port_to_repo
          /\ deployments' = deployments]_vars

\* C25 as stated: the delete of an existing deployment attempts a stop,
\* whatever the recorded status.
C25_DeleteAlwaysStops ==
    (ev.op = "delete" /\ ev.before \in DeploymentStatus) => ev.stop # "none"

\* C25, amended: the delete of an existing deployment attempts a stop exactly
\* when the recorded status is RUNNING; with or without the stop, and whether
\* or not the stop succeeds, the port is released and the record removed.
C25_DeleteStopsRunningOnly ==
    (ev.op = "delete" /\ ev.before \in DeploymentStatus) =>
        /\ ev.stop # "none" <=> ev.before = DEP_RUNNING
        /\ ~is_allocated(allocated_ports, ev.port)
        /\ ~Exists(ev.id)

\* a deployment whose start had failed was deleted: no stop was attempted
C25_Witness ==
    /\ ev.op = "delete"
    /\ ev.before = DEP_ERROR
    /\ ev.stop = "none"
    /\ ev.ok
    /\ ~Exists(ev.id)

\* C29: every deployment record that exists has its assigned port allocated in
\* the PortManager and owned there by the record's repository name.
C29_RecordsHoldTheirPorts ==
    \A id \in DOMAIN deployments :
        /\ is_allocated(allocated_ports, deployments[id].assigned_port)
        /\ get_repo_for_port(port_to_repo, deployments[id].assigned_port)
              = deployments[id].repo_name

\* C30: a start never ends with the containers built and started when the
\* deployment's record has been deleted, and its port released, while the start
\* was in flight.
C30_NoStartAfterDelete ==
    (ev.op = "deploy" /\ ev.started) =>
        /\ Exists(ev.id)
        /\ is_allocated(allocated_ports, deployments[ev.id].assigned_port)

\* ---- stack detection ----

\* the candidates produced for a directory, in the priority order: the root
\* Dockerfile's, the marker-file detectors' in their order, and the static
\* fallback's when no marker-file detector matched
Candidates(d) ==
    LET marker == SelectSeq(MarkerResults(d), IsResult)
    IN SelectSeq(<<detect_from_dockerfile(d)>>, IsResult)
       \o marker
       \o (IF marker = <<>> THEN SelectSeq(<<detect_static(d)>>, IsResult) ELSE <<>>)

\* C19: detect() returns the candidate of the greatest confidence among the
\* candidates produced for the directory, the earliest in the priority order
\* among equals, and stack "unknown" with confidence 0 when there is none.
C19_HighestConfidenceWins ==
    detected # NotRun =>
        IF Candidates(dir) = <<>>
        THEN detected.stack = "unknown" /\ detected.confidence_score = 0
        ELSE detected = FirstBest(Candidates(dir))

\* the framework that _detect_node names for a dependency
FrameworkOf(dep) ==
    CASE dep = "express" -> "Express"
      [] dep \in {"react", "react-dom"} -> "React"
      [] dep = "vue" -> "Vue"
      [] dep = "next" -> "Next.js"
      [] dep = "nuxt" -> "Nuxt"
      [] dep \in {"nestjs", "@nestjs/core"} -> "NestJS"
      [] dep = "gatsby" -> "Gatsby"
      [] dep = "svelte" -> "Svelte"
      [] dep = "fastify" -> "Fastify"
      [] dep = "hapi" -> "Hapi"
      [] OTHER -> "None"

\* the recognised frameworks that the directory's package.json names
NamedFrameworks(d) ==
    IF exists(d, "package.json") /\ file(d, "package.json").ok
    THEN {FrameworkOf(dep) : dep \in file(d, "package.json").kw} \ {"None"}
    ELSE {}

\* a detection has returned for a directory whose package.json names a
\* recognised framework, which has no root Dockerfile, and in which
\* Path.exists() raises for no file
NodeFrameworkCase ==
    /\ detected # NotRun
    /\ NamedFrameworks(dir) # {}
    /\ ~exists(dir, "Dockerfile")
    /\ \A f \in dir : f.stat

DetectorFiles(detector) ==
    IF detector = "csharp" THEN {"app.csproj"}
    ELSE IF detector = "static" THEN {"index.html", "index.htm", "style.css"}
    ELSE StatNames(detector)

AllDetectors == MarkerDetectors \cup {"dockerfile", "static"}

\* a file of the detector cannot be examined or read
HasIOError(d, detector) ==
    \E f \in d : f.name \in DetectorFiles(detector) /\ (~f.ok \/ ~f.stat)

\* the directory without the marker files of the detectors that have an I/O
\* error: those detectors produce no candidate for it, the others are unchanged
WithoutFailing(d) ==
    {f \in d : ~\E s \in AllDetectors : f.name \in DetectorFiles(s) /\ HasIOError(d, s)}

\* C21: detect() returns what it would return if the detectors that met an I/O
\* error had produced no candidate.
C21_IOErrorDropsOneCandidate ==
    detected # NotRun => detected = detect(WithoutFailing(dir))

\* ---- external calls ----

Range(seq) == {seq[i] : i \in DOMAIN seq}

NonZeroExits == {q \in Processes : q.kind = "exit" /\ q.returncode # 0}

\* the errors that the four operations report for a non-zero exit
NonZeroErrors ==
    UNION {{build_image(q).error, start_deployment(q).error,
            executor_stop_deployment(q).error, executor_restart_deployment(q).error}
           : q \in NonZeroExits}

\* the text is part of what the result carries
Carries(result, text) ==
    text # "" => text \in Range(result.logs) \cup {result.error.text}

\* an executor operation has returned after its command timed out or ended
\* with a non-zero exit
CommandFailed ==
    /\ call.pc = "returned"
    /\ call.op \in {"deploy", "stop", "restart"}
    /\ \/ call.proc.kind = "timeout"
       \/ call.proc.kind = "exit" /\ call.proc.returncode # 0

\* C22: the result of a timed-out command is a failure that no non-zero exit
\* produces, and the result of a timed-out or non-zero command carries the
\* stdout and the stderr that were captured.
C22_FailuresCarryOutput ==
    CommandFailed =>
        /\ ~call.result.success
        /\ call.proc.kind = "timeout" => call.result.error \notin NonZeroErrors
        /\ Carries(call.result, call.proc.stdout)
        /\ Carries(call.result, call.proc.stderr)

\* C23: an operation whose external call timed out returns a failure, and
\* nothing that it created is left.
C23_TimeoutCleansUp ==
    (call.pc = "returned" /\ call.proc.kind = "timeout") =>
        /\ ~call.result.success
        /\ call.made \cap fs = {}

====
